---------------------------- MODULE Spec2Model ----------------------------
(***************************************************************************)
(* A model of the chipotto CHIP-8 interpreter (src/src/core/memory.rs,     *)
(* src/src/chip8/{framebuffer,keypad,instr,cpu,chip8}.rs, src/src/app.rs). *)
(*                                                                         *)
(* Rust integer arithmetic written with + - * panics on overflow when the  *)
(* crate is built with overflow checks (the dev profile) and wraps when it *)
(* is built without them (the release profile).  The model keeps both: the *)
(* variable overflow_checks is fixed by Init and never changes.            *)
(***************************************************************************)
EXTENDS Integers, Sequences, FiniteSets, TLC

VARIABLES
    overflow_checks,  \* build profile: TRUE = dev (checked), FALSE = release
    cpu,              \* Chip8.cpu: [pc, v, i, dt, st, stack]
    frame_buffer,     \* Chip8.frame_buffer: [buffer, has_changed]
    memory,           \* Chip8.memory: [bytes]
    keypad,           \* Chip8.keypad: [keys]
    panicked,         \* NoPanic, or the panic that ended the process
    call,             \* the most recent call and what it returned
    hist,             \* what the claims need of the calls before that
    n_ops             \* number of calls made so far

vars == <<overflow_checks, cpu, frame_buffer, memory, keypad, panicked,
          call, hist, n_ops>>

(***************************************************************************)
(* Machine integers                                                        *)
(***************************************************************************)
U8_MOD == 256
U16_MOD == 65536

NoPanic == "none"
AddOverflow == "attempt to add with overflow"
SubOverflow == "attempt to subtract with overflow"
MulOverflow == "attempt to multiply with overflow"
IllegalAccess == "illegal memory access"
IndexOutOfBounds == "index out of bounds"
SliceIndex == "slice index out of range"
UnreachablePixel == "no such value should exist in the frame buffer"
UnknownInstruction == "unknown instruction"

RECURSIVE Pow2(_)
Pow2(k) == IF k = 0 THEN 1 ELSE 2 * Pow2(k - 1)

\* bit k of a (k = 0 is the least significant bit)
Bit(a, k) == (a \div Pow2(k)) % 2

\* a >> k
Shr(a, k) == a \div Pow2(k)

RECURSIVE BitAnd(_, _)
BitAnd(a, b) ==
    IF a = 0 \/ b = 0 THEN 0
    ELSE (a % 2) * (b % 2) + 2 * BitAnd(a \div 2, b \div 2)

RECURSIVE BitOr(_, _)
BitOr(a, b) ==
    IF a = 0 THEN b
    ELSE IF b = 0 THEN a
    ELSE (IF a % 2 = 1 \/ b % 2 = 1 THEN 1 ELSE 0) + 2 * BitOr(a \div 2, b \div 2)

RECURSIVE BitXor(_, _)
BitXor(a, b) ==
    IF a = 0 THEN b
    ELSE IF b = 0 THEN a
    ELSE ((a + b) % 2) + 2 * BitXor(a \div 2, b \div 2)

(***************************************************************************)
(* core/memory.rs                                                          *)
(***************************************************************************)
MEM_SIZE == 4096
ROM_START_ADDRESS == 512

FONT_SPRITES ==
    << 240, 144, 144, 144, 240,
       32, 96, 32, 32, 112,
       240, 16, 240, 128, 240,
       240, 16, 240, 16, 240,
       144, 144, 240, 16, 16,
       240, 128, 240, 16, 240,
       240, 128, 240, 144, 240,
       240, 16, 32, 64, 64,
       240, 144, 240, 144, 240,
       240, 144, 240, 16, 240,
       240, 144, 240, 144, 144,
       224, 144, 224, 144, 224,
       240, 128, 128, 128, 240,
       224, 144, 144, 144, 224,
       240, 128, 240, 128, 240,
       240, 128, 240, 128, 128 >>

\* A faulty check_legal_mem_access that ignores num_bytes; C2 does not hold of it.
check_legal_mem_access_address_only(address, num_bytes) ==
    IF address > MEM_SIZE THEN IllegalAccess ELSE NoPanic

\* fn check_legal_mem_access(address: u16, num_bytes: u16): the panic it
\* raises, or NoPanic.  address + num_bytes is a u16 addition.
check_legal_mem_access(address, num_bytes) ==
    LET sum == address + num_bytes IN
    IF sum >= U16_MOD /\ overflow_checks THEN AddOverflow
    ELSE IF sum % U16_MOD > MEM_SIZE THEN IllegalAccess
    ELSE NoPanic

\* A Vec or slice is a sequence: element [k] of the code is element k + 1 here.
At(vec, k) == vec[k + 1]

\* vec[k] = x
SetAt(vec, k, x) == [vec EXCEPT ![k + 1] = x]

\* vec[k] panics unless k < vec.len()
IndexPanic(vec, k) == IF k >= Len(vec) THEN IndexOutOfBounds ELSE NoPanic

\* vec[start..end] panics unless start <= end <= vec.len()
SlicePanic(vec, start, end) ==
    IF start > end \/ end > Len(vec) THEN SliceIndex ELSE NoPanic

\* vec[start..end]
Slice(vec, start, end) == SubSeq(vec, start + 1, end)

\* vec[start..start + data.len()].copy_from_slice(data)
CopyFromSlice(vec, start, data) ==
    SubSeq(vec, 1, start) \o data \o SubSeq(vec, start + Len(data) + 1, Len(vec))

Memory_read_byte(mem, address) ==
    LET chk == check_legal_mem_access(address, 1) IN
    IF chk # NoPanic THEN [panic |-> chk, ret |-> << >>]
    ELSE IF IndexPanic(mem.bytes, address) # NoPanic
         THEN [panic |-> IndexOutOfBounds, ret |-> << >>]
    ELSE [panic |-> NoPanic, ret |-> At(mem.bytes, address)]

Memory_write_byte(mem, address, byte) ==
    LET chk == check_legal_mem_access(address, 1) IN
    IF chk # NoPanic THEN [panic |-> chk, mem |-> mem]
    ELSE IF IndexPanic(mem.bytes, address) # NoPanic
         THEN [panic |-> IndexOutOfBounds, mem |-> mem]
    ELSE [panic |-> NoPanic, mem |-> [mem EXCEPT !.bytes = SetAt(@, address, byte)]]

\* A faulty read_word that takes the low byte first; C1 does not hold of it.
Memory_read_word_little_endian(mem, address) ==
    LET chk == check_legal_mem_access(address, 2)
        next == (address + 1) % U16_MOD
    IN
    IF chk # NoPanic THEN [panic |-> chk, ret |-> << >>]
    ELSE IF IndexPanic(mem.bytes, address) # NoPanic
         THEN [panic |-> IndexOutOfBounds, ret |-> << >>]
    ELSE IF address + 1 >= U16_MOD /\ overflow_checks
         THEN [panic |-> AddOverflow, ret |-> << >>]
    ELSE IF IndexPanic(mem.bytes, next) # NoPanic
         THEN [panic |-> IndexOutOfBounds, ret |-> << >>]
    ELSE [panic |-> NoPanic,
          ret |-> BitOr((At(mem.bytes, next) * 256) % U16_MOD, At(mem.bytes, address))]

\* ((bytes[address] as u16) << 8) | bytes[(address + 1)] as u16
Memory_read_word(mem, address) ==
    LET chk == check_legal_mem_access(address, 2)
        next == (address + 1) % U16_MOD
    IN
    IF chk # NoPanic THEN [panic |-> chk, ret |-> << >>]
    ELSE IF IndexPanic(mem.bytes, address) # NoPanic
         THEN [panic |-> IndexOutOfBounds, ret |-> << >>]
    ELSE IF address + 1 >= U16_MOD /\ overflow_checks
         THEN [panic |-> AddOverflow, ret |-> << >>]
    ELSE IF IndexPanic(mem.bytes, next) # NoPanic
         THEN [panic |-> IndexOutOfBounds, ret |-> << >>]
    ELSE [panic |-> NoPanic,
          ret |-> BitOr((At(mem.bytes, address) * 256) % U16_MOD, At(mem.bytes, next))]

\* A faulty write_word that stores the low byte first; C22 does not hold of it.
Memory_write_word_low_first(mem, address, word) ==
    LET chk == check_legal_mem_access(address, 2)
        next == (address + 1) % U16_MOD
        m1 == [mem EXCEPT !.bytes = SetAt(@, address, word % U8_MOD)]
    IN
    IF chk # NoPanic THEN [panic |-> chk, mem |-> mem]
    ELSE IF IndexPanic(mem.bytes, address) # NoPanic
         THEN [panic |-> IndexOutOfBounds, mem |-> mem]
    ELSE IF address + 1 >= U16_MOD /\ overflow_checks
         THEN [panic |-> AddOverflow, mem |-> m1]
    ELSE IF IndexPanic(mem.bytes, next) # NoPanic
         THEN [panic |-> IndexOutOfBounds, mem |-> m1]
    ELSE [panic |-> NoPanic,
          mem |-> [m1 EXCEPT !.bytes = SetAt(@, next, Shr(word, 8) % U8_MOD)]]

\* bytes[address] = (word >> 8) as u8; bytes[address + 1] = word as u8
Memory_write_word(mem, address, word) ==
    LET chk == check_legal_mem_access(address, 2)
        next == (address + 1) % U16_MOD
        m1 == [mem EXCEPT !.bytes = SetAt(@, address, Shr(word, 8) % U8_MOD)]
    IN
    IF chk # NoPanic THEN [panic |-> chk, mem |-> mem]
    ELSE IF IndexPanic(mem.bytes, address) # NoPanic
         THEN [panic |-> IndexOutOfBounds, mem |-> mem]
    ELSE IF address + 1 >= U16_MOD /\ overflow_checks
         THEN [panic |-> AddOverflow, mem |-> m1]
    ELSE IF IndexPanic(mem.bytes, next) # NoPanic
         THEN [panic |-> IndexOutOfBounds, mem |-> m1]
    ELSE [panic |-> NoPanic,
          mem |-> [m1 EXCEPT !.bytes = SetAt(@, next, word % U8_MOD)]]

\* bytes[address..(address + num_bytes)].to_vec(), the sum a u16 addition
Memory_read_data(mem, address, num_bytes) ==
    LET chk == check_legal_mem_access(address, num_bytes)
        end == (address + num_bytes) % U16_MOD
    IN
    IF chk # NoPanic THEN [panic |-> chk, ret |-> << >>]
    ELSE IF address + num_bytes >= U16_MOD /\ overflow_checks
         THEN [panic |-> AddOverflow, ret |-> << >>]
    ELSE IF SlicePanic(mem.bytes, address, end) # NoPanic
         THEN [panic |-> SliceIndex, ret |-> << >>]
    ELSE [panic |-> NoPanic, ret |-> Slice(mem.bytes, address, end)]

\* A faulty write_data that copies the bytes that fit and drops the rest;
\* C3 does not hold of it.
Memory_write_data_clipped(mem, address, data) ==
    LET room == IF address > Len(mem.bytes) THEN 0 ELSE Len(mem.bytes) - address
        n == IF Len(data) < room THEN Len(data) ELSE room
    IN
    IF address > Len(mem.bytes) THEN [panic |-> IllegalAccess, mem |-> mem]
    ELSE [panic |-> NoPanic,
          mem |-> [mem EXCEPT !.bytes = CopyFromSlice(@, address, SubSeq(data, 1, n))]]

\* check_legal_mem_access(address, data.len() as u16): the cast truncates;
\* bytes[address..address + data.len()] is indexed with the full usize length.
Memory_write_data(mem, address, data) ==
    LET chk == check_legal_mem_access(address, Len(data) % U16_MOD) IN
    IF chk # NoPanic THEN [panic |-> chk, mem |-> mem]
    ELSE IF SlicePanic(mem.bytes, address, address + Len(data)) # NoPanic
         THEN [panic |-> SliceIndex, mem |-> mem]
    ELSE [panic |-> NoPanic,
          mem |-> [mem EXCEPT !.bytes = CopyFromSlice(@, address, data)]]

\* dest[0..num_bytes].copy_from_slice(&bytes[address..(address + num_bytes)])
Memory_copy_into(mem, dest, address, num_bytes) ==
    LET chk == check_legal_mem_access(address, num_bytes)
        end == (address + num_bytes) % U16_MOD
    IN
    IF chk # NoPanic THEN [panic |-> chk, dest |-> dest]
    ELSE IF SlicePanic(dest, 0, num_bytes) # NoPanic
         THEN [panic |-> SliceIndex, dest |-> dest]
    ELSE IF address + num_bytes >= U16_MOD /\ overflow_checks
         THEN [panic |-> AddOverflow, dest |-> dest]
    ELSE IF SlicePanic(mem.bytes, address, end) # NoPanic
         THEN [panic |-> SliceIndex, dest |-> dest]
    ELSE [panic |-> NoPanic,
          dest |-> CopyFromSlice(dest, 0, Slice(mem.bytes, address, end))]

\* A faulty load_rom that writes at address 0; C4 does not hold of it.
Memory_load_rom_at_zero(mem, contents) ==
    Memory_write_data(mem, 0, contents)

Memory_load_rom(mem, contents) ==
    Memory_write_data(mem, ROM_START_ADDRESS, contents)

\* vec![0; MEM_SIZE], then the font sprites at address 0
Memory_new ==
    Memory_write_data([bytes |-> [k \in 1..MEM_SIZE |-> 0]], 0, FONT_SPRITES).mem

(***************************************************************************)
(* chip8/framebuffer.rs                                                    *)
(***************************************************************************)
BUFFER_WIDTH == 64
BUFFER_HEIGHT == 32

FrameBuffer_default ==
    [buffer |-> [p \in 1..(BUFFER_WIDTH * BUFFER_HEIGHT) |-> 0],
     has_changed |-> FALSE]

FrameBuffer_has_changed(fb) == fb.has_changed

FrameBuffer_set_changed(fb, changed) == [fb EXCEPT !.has_changed = changed]

FrameBuffer_clear(fb) == [fb EXCEPT !.buffer = [p \in 1..Len(@) |-> 0]]

FrameBuffer_get_pixel(fb, x, y) == At(fb.buffer, y * BUFFER_WIDTH + x)

FrameBuffer_set_pixel(fb, x, y, v) ==
    [fb EXCEPT !.buffer = SetAt(@, y * BUFFER_WIDTH + x, v)]

\* A faulty pixel value that sets instead of toggling; C5 does not hold of it.
draw_value_or(new_val, old_val) == BitOr(new_val, old_val)

\* A faulty pixel value that adds instead of toggling; C33 does not hold of it.
draw_value_sum(new_val, old_val) == new_val + old_val

\* The value draw stores for a set sprite bit: new_val ^ old_val.
draw_value(new_val, old_val) == BitXor(new_val, old_val)

\* One turn of draw's inner loop: bit col of sprite byte number row.
\* st is [fb, collided, panic]; x + col and y + row are u8 additions.
draw_bit(st, x, y, byte, row, col) ==
    LET new_val == BitAnd(Shr(byte, 7 - col), 1)
        x_idx == ((x + col) % U8_MOD) % BUFFER_WIDTH
        y_idx == ((y + row) % U8_MOD) % BUFFER_HEIGHT
        old_val == FrameBuffer_get_pixel(st.fb, x_idx, y_idx)
    IN
    IF new_val # 1 THEN st
    ELSE IF x + col >= U8_MOD /\ overflow_checks THEN [st EXCEPT !.panic = AddOverflow]
    ELSE IF y + row >= U8_MOD /\ overflow_checks THEN [st EXCEPT !.panic = AddOverflow]
    ELSE [fb |-> FrameBuffer_set_pixel(st.fb, x_idx, y_idx, draw_value(new_val, old_val)),
          collided |-> (st.collided \/ old_val = 1),
          panic |-> NoPanic]

\* draw's inner loop, for col in 0..8, from turn col on.  s is st, evaluated once.
RECURSIVE draw_row(_, _, _, _, _, _)
draw_row(st, x, y, byte, row, col) ==
    CHOOSE r \in {IF s.panic # NoPanic \/ col = 8 THEN s
                  ELSE draw_row(draw_bit(s, x, y, byte, row, col), x, y, byte, row, col + 1)
                  : s \in {st}} : TRUE

\* draw's outer loop from sprite byte number k on; row is a u8 counter
\* incremented after every byte.  s is st, evaluated once.
RECURSIVE draw_from(_, _, _, _, _)
draw_from(st, x, y, data, k) ==
    CHOOSE r \in {IF s.panic # NoPanic THEN s
                  ELSE IF k >= U8_MOD /\ overflow_checks THEN [s EXCEPT !.panic = AddOverflow]
                  ELSE IF k = Len(data) THEN s
                  ELSE draw_from(draw_row(s, x, y, data[k + 1], k % U8_MOD, 0), x, y, data, k + 1)
                  : s \in {st}} : TRUE

\* pub fn draw(&mut self, x: u8, y: u8, data: &[u8]) -> bool: [fb, collided, panic]
FrameBuffer_draw(fb, x, y, data) ==
    draw_from([fb |-> fb, collided |-> FALSE, panic |-> NoPanic], x, y, data, 0)

(***************************************************************************)
(* Construction (Cpu::new, FrameBuffer::default, Keypad::default)          *)
(***************************************************************************)
PC_START == 512
STACK_SIZE == 16
KEY_COUNT == 16

Cpu_new ==
    [pc |-> PC_START, v |-> [r \in 1..16 |-> 0], i |-> 0, dt |-> 0, st |-> 0,
     stack |-> <<>>]

Keypad_default == [keys |-> [k \in 1..KEY_COUNT |-> FALSE]]

\* Chip8::new, for either build profile
Chip8_new ==
    /\ overflow_checks \in BOOLEAN
    /\ cpu = Cpu_new
    /\ frame_buffer = FrameBuffer_default
    /\ memory = Memory_new
    /\ keypad = Keypad_default
    /\ panicked = NoPanic
    /\ n_ops = 0

(***************************************************************************)
(* chip8/keypad.rs                                                         *)
(***************************************************************************)
\* pub fn is_down(&self, idx: u8) -> bool: [panic, ret]
Keypad_is_down(kp, idx) ==
    IF IndexPanic(kp.keys, idx) # NoPanic
    THEN [panic |-> IndexOutOfBounds, ret |-> FALSE]
    ELSE [panic |-> NoPanic, ret |-> At(kp.keys, idx)]

\* pub fn set_down(&mut self, idx: u8, down: bool): [panic, kp]
Keypad_set_down(kp, idx, down) ==
    IF IndexPanic(kp.keys, idx) # NoPanic
    THEN [panic |-> IndexOutOfBounds, kp |-> kp]
    ELSE [panic |-> NoPanic, kp |-> [kp EXCEPT !.keys = SetAt(@, idx, down)]]

\* A faulty get_down_key that returns the last key down instead of the first;
\* C19 does not hold of it.
Keypad_get_down_key_last(kp) ==
    LET down == {k \in 0..(KEY_COUNT - 1) : At(kp.keys, k)} IN
    IF down = {} THEN [some |-> FALSE, k |-> 0]
    ELSE [some |-> TRUE, k |-> CHOOSE k \in down : \A j \in down : k >= j]

\* pub fn get_down_key(&self) -> Option<u8>: [some, k], the lowest key down
Keypad_get_down_key(kp) ==
    LET down == {k \in 0..(KEY_COUNT - 1) : At(kp.keys, k)} IN
    IF down = {} THEN [some |-> FALSE, k |-> 0]
    ELSE [some |-> TRUE, k |-> CHOOSE k \in down : \A j \in down : k <= j]

(***************************************************************************)
(* chip8/instr.rs                                                          *)
(***************************************************************************)
\* A faulty field extraction that takes x from the third nibble and y from the
\* second; C15 does not hold of it.
Instr_xy_swapped(op, opcode) ==
    [op |-> op,
     x |-> (opcode \div 16) % 16,
     y |-> (opcode \div 256) % 16,
     n |-> opcode % 16,
     nnn |-> opcode % 4096,
     kk |-> opcode % 256]

\* The fields Instr::from computes for every opcode, with the variant it matches.
Instr(op, opcode) ==
    [op |-> op,
     x |-> (opcode \div 256) % 16,
     y |-> (opcode \div 16) % 16,
     n |-> opcode % 16,
     nnn |-> opcode % 4096,
     kk |-> opcode % 256]

\* The variant Instr::from matches for the nibbles of an opcode, "unknown" when
\* it falls to unreachable!.
InstrOp(n1, n2, n3, n4) ==
    IF n1 = 0 /\ n2 = 0 /\ n3 = 14 /\ n4 = 0 THEN "Cls"
    ELSE IF n1 = 0 /\ n2 = 0 /\ n3 = 14 /\ n4 = 14 THEN "Ret"
    ELSE CASE n1 = 0 -> "Sys"
           [] n1 = 1 -> "Jp"
           [] n1 = 2 -> "Call"
           [] n1 = 3 -> "SeVxKK"
           [] n1 = 4 -> "SneVxKK"
           [] n1 = 5 -> "SeVxVy"
           [] n1 = 6 -> "LdVxKK"
           [] n1 = 7 -> "AddVxKK"
           [] n1 = 8 /\ n4 = 0 -> "LdVxVy"
           [] n1 = 8 /\ n4 = 1 -> "OrVxVy"
           [] n1 = 8 /\ n4 = 2 -> "AndVxVy"
           [] n1 = 8 /\ n4 = 3 -> "XorVxVy"
           [] n1 = 8 /\ n4 = 4 -> "AddVxVy"
           [] n1 = 8 /\ n4 = 5 -> "SubVxVy"
           [] n1 = 8 /\ n4 = 6 -> "ShrVx"
           [] n1 = 8 /\ n4 = 7 -> "SubnVxVy"
           [] n1 = 8 /\ n4 = 14 -> "ShlVx"
           [] n1 = 9 /\ n4 = 0 -> "SneVxVy"
           [] n1 = 10 -> "LdI"
           [] n1 = 11 -> "JpV0"
           [] n1 = 12 -> "RndVxKK"
           [] n1 = 13 -> "DrwVxVyN"
           [] n1 = 14 /\ n3 = 9 /\ n4 = 14 -> "SkpVx"
           [] n1 = 14 /\ n3 = 10 /\ n4 = 1 -> "SknpVx"
           [] n1 = 15 /\ n3 = 0 /\ n4 = 7 -> "LdVxDT"
           [] n1 = 15 /\ n3 = 0 /\ n4 = 10 -> "LdVxK"
           [] n1 = 15 /\ n3 = 1 /\ n4 = 5 -> "LdDTVx"
           [] n1 = 15 /\ n3 = 1 /\ n4 = 8 -> "LdSTVx"
           [] n1 = 15 /\ n3 = 1 /\ n4 = 14 -> "AddIVx"
           [] n1 = 15 /\ n3 = 2 /\ n4 = 9 -> "LdFVx"
           [] n1 = 15 /\ n3 = 3 /\ n4 = 3 -> "LdBVx"
           [] n1 = 15 /\ n3 = 5 /\ n4 = 5 -> "LdIVx"
           [] n1 = 15 /\ n3 = 6 /\ n4 = 5 -> "LdVxI"
           [] OTHER -> "unknown"

\* pub fn from(opcode: u16) -> Instr
Instr_from(opcode) ==
    Instr(InstrOp(opcode \div 4096, (opcode \div 256) % 16, (opcode \div 16) % 16,
                  opcode % 16),
          opcode)

(***************************************************************************)
(* chip8/cpu.rs.  Register Vk is V(c, k); an arm of exec gives the record   *)
(* [cpu, fb, mem, panic] of what the call leaves behind.                   *)
(***************************************************************************)
V(c, k) == At(c.v, k)

SetV(c, k, val) == [c EXCEPT !.v = SetAt(@, k, val)]

Done(c, fb, mem) == [cpu |-> c, fb |-> fb, mem |-> mem, panic |-> NoPanic]

Panic(c, fb, mem, p) == [cpu |-> c, fb |-> fb, mem |-> mem, panic |-> p]

\* A faulty skip that advances by half the fetch width; C17 does not hold of it.
Cpu_skip_by_one(c) ==
    IF c.pc + 1 >= U16_MOD /\ overflow_checks THEN [panic |-> AddOverflow, cpu |-> c]
    ELSE [panic |-> NoPanic, cpu |-> [c EXCEPT !.pc = (c.pc + 1) % U16_MOD]]

\* fn skip(&mut self): self.pc += 2, as [panic, cpu]
Cpu_skip(c) ==
    IF c.pc + 2 >= U16_MOD /\ overflow_checks THEN [panic |-> AddOverflow, cpu |-> c]
    ELSE [panic |-> NoPanic, cpu |-> [c EXCEPT !.pc = (c.pc + 2) % U16_MOD]]

\* if cond { self.skip(); }
SkipIf(cond, c, fb, mem) ==
    IF cond THEN Panic(Cpu_skip(c).cpu, fb, mem, Cpu_skip(c).panic)
    ELSE Done(c, fb, mem)

exec_Cls(c, fb, mem) ==
    Done(c, FrameBuffer_set_changed(FrameBuffer_clear(fb), TRUE), mem)

\* A faulty return that, on an empty stack, rewinds PC to the 00EE itself; C21
\* does not hold of it.
exec_Ret_rewinding(c, fb, mem) ==
    IF Len(c.stack) > 0
    THEN Done([c EXCEPT !.pc = c.stack[Len(c.stack)],
                        !.stack = SubSeq(c.stack, 1, Len(c.stack) - 1)], fb, mem)
    ELSE Done([c EXCEPT !.pc = (c.pc - 2) % U16_MOD], fb, mem)

exec_Ret(c, fb, mem) ==
    IF Len(c.stack) > 0
    THEN Done([c EXCEPT !.pc = c.stack[Len(c.stack)],
                        !.stack = SubSeq(c.stack, 1, Len(c.stack) - 1)], fb, mem)
    ELSE Done(c, fb, mem)

exec_Jp(c, fb, mem, nnn) == Done([c EXCEPT !.pc = nnn], fb, mem)

\* A faulty call that pushes the address of the call instruction itself; C20
\* does not hold of it.
exec_Call_push_call_address(c, fb, mem, nnn) ==
    Done([c EXCEPT !.stack = Append(c.stack, (c.pc - 2) % U16_MOD), !.pc = nnn], fb, mem)

\* A call that keeps the stack within STACK_SIZE by not pushing when it is full;
\* C26 does not hold of it.
exec_Call_within_capacity(c, fb, mem, nnn) ==
    IF Len(c.stack) >= STACK_SIZE THEN Done([c EXCEPT !.pc = nnn], fb, mem)
    ELSE Done([c EXCEPT !.stack = Append(c.stack, c.pc), !.pc = nnn], fb, mem)

exec_Call(c, fb, mem, nnn) ==
    Done([c EXCEPT !.stack = Append(c.stack, c.pc), !.pc = nnn], fb, mem)

exec_SeVxKK(c, fb, mem, x, kk) == SkipIf(V(c, x) = kk, c, fb, mem)

exec_SneVxKK(c, fb, mem, x, kk) == SkipIf(V(c, x) # kk, c, fb, mem)

exec_SeVxVy(c, fb, mem, x, y) == SkipIf(V(c, x) = V(c, y), c, fb, mem)

exec_SneVxVy(c, fb, mem, x, y) == SkipIf(V(c, x) # V(c, y), c, fb, mem)

exec_LdVxKK(c, fb, mem, x, kk) == Done(SetV(c, x, kk), fb, mem)

\* A faulty 7xkk that adds with `+`: it panics on overflow when overflow checks
\* are on; C12 does not hold of it.
exec_AddVxKK_checked(c, fb, mem, x, kk) ==
    IF V(c, x) + kk >= U8_MOD /\ overflow_checks THEN Panic(c, fb, mem, AddOverflow)
    ELSE Done(SetV(c, x, (V(c, x) + kk) % U8_MOD), fb, mem)

exec_AddVxKK(c, fb, mem, x, kk) == Done(SetV(c, x, (V(c, x) + kk) % U8_MOD), fb, mem)

exec_LdVxVy(c, fb, mem, x, y) == Done(SetV(c, x, V(c, y)), fb, mem)

exec_OrVxVy(c, fb, mem, x, y) == Done(SetV(c, x, BitOr(V(c, x), V(c, y))), fb, mem)

exec_AndVxVy(c, fb, mem, x, y) == Done(SetV(c, x, BitAnd(V(c, x), V(c, y))), fb, mem)

exec_XorVxVy(c, fb, mem, x, y) == Done(SetV(c, x, BitXor(V(c, x), V(c, y))), fb, mem)

\* self.v[0xF] is written first, self.v[x] second
exec_AddVxVy(c, fb, mem, x, y) ==
    LET res == (V(c, x) + V(c, y)) % U8_MOD
        overflow == V(c, x) + V(c, y) >= U8_MOD
    IN Done(SetV(SetV(c, 15, IF overflow THEN 1 ELSE 0), x, res), fb, mem)

exec_SubVxVy(c, fb, mem, x, y) ==
    LET res == (V(c, x) - V(c, y)) % U8_MOD
        overflow == V(c, x) < V(c, y)
    IN Done(SetV(SetV(c, 15, IF ~overflow THEN 1 ELSE 0), x, res), fb, mem)

exec_SubnVxVy(c, fb, mem, x, y) ==
    LET res == (V(c, y) - V(c, x)) % U8_MOD
        overflow == V(c, y) < V(c, x)
    IN Done(SetV(SetV(c, 15, IF ~overflow THEN 1 ELSE 0), x, res), fb, mem)

\* self.v[0xF] = x as u8 & 1: the flag is taken from the register index x
exec_ShrVx(c, fb, mem, x) ==
    LET flagged == SetV(c, 15, BitAnd(x % U8_MOD, 1))
    IN Done(SetV(flagged, x, Shr(V(flagged, x), 1)), fb, mem)

\* self.v[0xF] = (x as u8 & 0x80) >> 7: the flag is taken from the register index x
exec_ShlVx(c, fb, mem, x) ==
    LET flagged == SetV(c, 15, Shr(BitAnd(x % U8_MOD, 128), 7))
    IN Done(SetV(flagged, x, (V(flagged, x) * 2) % U8_MOD), fb, mem)

exec_LdI(c, fb, mem, nnn) == Done([c EXCEPT !.i = nnn], fb, mem)

exec_JpV0(c, fb, mem, nnn) ==
    IF nnn + V(c, 0) >= U16_MOD /\ overflow_checks THEN Panic(c, fb, mem, AddOverflow)
    ELSE Done([c EXCEPT !.pc = (nnn + V(c, 0)) % U16_MOD], fb, mem)

exec_RndVxKK(c, fb, mem, x, kk, rand_byte) ==
    Done(SetV(c, x, BitAnd(kk, rand_byte)), fb, mem)

exec_DrwVxVyN(c, fb, mem, x, y, n) ==
    LET sprite == Memory_read_data(mem, c.i, n) IN
    IF sprite.panic # NoPanic THEN Panic(c, fb, mem, sprite.panic)
    ELSE LET drawn == FrameBuffer_draw(fb, V(c, x), V(c, y), sprite.ret) IN
         IF drawn.panic # NoPanic THEN Panic(c, drawn.fb, mem, drawn.panic)
         ELSE Done(SetV(c, 15, IF drawn.collided THEN 1 ELSE 0),
                   FrameBuffer_set_changed(drawn.fb, TRUE), mem)

\* A faulty Ex9E that tests the key numbered x instead of the key numbered Vx;
\* C23 does not hold of it.
exec_SkpVx_register_index(c, fb, mem, kp, x) ==
    LET down == Keypad_is_down(kp, x) IN
    IF down.panic # NoPanic THEN Panic(c, fb, mem, down.panic)
    ELSE SkipIf(down.ret, c, fb, mem)

exec_SkpVx(c, fb, mem, kp, x) ==
    LET down == Keypad_is_down(kp, V(c, x)) IN
    IF down.panic # NoPanic THEN Panic(c, fb, mem, down.panic)
    ELSE SkipIf(down.ret, c, fb, mem)

exec_SknpVx(c, fb, mem, kp, x) ==
    LET down == Keypad_is_down(kp, V(c, x)) IN
    IF down.panic # NoPanic THEN Panic(c, fb, mem, down.panic)
    ELSE SkipIf(~down.ret, c, fb, mem)

exec_LdVxDT(c, fb, mem, x) == Done(SetV(c, x, c.dt), fb, mem)

\* A faulty key wait that rewinds by half the fetch width; C18 does not hold of it.
exec_LdVxK_rewind_by_one(c, fb, mem, kp, x) ==
    LET key == Keypad_get_down_key(kp) IN
    IF key.some THEN Done(SetV(c, x, key.k), fb, mem)
    ELSE IF c.pc < 1 /\ overflow_checks THEN Panic(c, fb, mem, SubOverflow)
    ELSE Done([c EXCEPT !.pc = (c.pc - 1) % U16_MOD], fb, mem)

\* A faulty key wait that stores the key but rewinds all the same; C31 does
\* not hold of it.
exec_LdVxK_rewinding_always(c, fb, mem, kp, x) ==
    LET key == Keypad_get_down_key(kp)
        stored == IF key.some THEN SetV(c, x, key.k) ELSE c
    IN
    IF c.pc < 2 /\ overflow_checks THEN Panic(stored, fb, mem, SubOverflow)
    ELSE Done([stored EXCEPT !.pc = (c.pc - 2) % U16_MOD], fb, mem)

exec_LdVxK(c, fb, mem, kp, x) ==
    LET key == Keypad_get_down_key(kp) IN
    IF key.some THEN Done(SetV(c, x, key.k), fb, mem)
    ELSE IF c.pc < 2 /\ overflow_checks THEN Panic(c, fb, mem, SubOverflow)
    ELSE Done([c EXCEPT !.pc = (c.pc - 2) % U16_MOD], fb, mem)

exec_LdDTVx(c, fb, mem, x) == Done([c EXCEPT !.dt = V(c, x)], fb, mem)

exec_LdSTVx(c, fb, mem, x) == Done([c EXCEPT !.st = V(c, x)], fb, mem)

\* A faulty Fx1E that also clears the display; C27 does not hold of it.
exec_AddIVx_clearing(c, fb, mem, x) ==
    IF c.i + V(c, x) >= U16_MOD /\ overflow_checks THEN Panic(c, fb, mem, AddOverflow)
    ELSE Done([c EXCEPT !.i = (c.i + V(c, x)) % U16_MOD], FrameBuffer_clear(fb), mem)

exec_AddIVx(c, fb, mem, x) ==
    IF c.i + V(c, x) >= U16_MOD /\ overflow_checks THEN Panic(c, fb, mem, AddOverflow)
    ELSE Done([c EXCEPT !.i = (c.i + V(c, x)) % U16_MOD], fb, mem)

\* A faulty Fx29 that takes glyphs to be 4 bytes apart; C25 does not hold of it.
exec_LdFVx_four_byte_glyphs(c, fb, mem, x) ==
    IF V(c, x) * 4 >= U8_MOD /\ overflow_checks THEN Panic(c, fb, mem, MulOverflow)
    ELSE Done([c EXCEPT !.i = (V(c, x) * 4) % U8_MOD], fb, mem)

\* (self.v[x] * 5) as u16: the product is taken in u8
exec_LdFVx(c, fb, mem, x) ==
    IF V(c, x) * 5 >= U8_MOD /\ overflow_checks THEN Panic(c, fb, mem, MulOverflow)
    ELSE Done([c EXCEPT !.i = (V(c, x) * 5) % U8_MOD], fb, mem)

\* A faulty Fx33 whose tens digit is num / 10; C13 does not hold of it.
exec_LdBVx_tens_unreduced(c, fb, mem, x) ==
    LET num == V(c, x)
        hundreds == num \div 100
        tens == num \div 10
        digits == num % 10
        w1 == Memory_write_byte(mem, c.i, hundreds)
        w2 == Memory_write_byte(w1.mem, (c.i + 1) % U16_MOD, tens)
        w3 == Memory_write_byte(w2.mem, (c.i + 2) % U16_MOD, digits)
    IN
    IF w1.panic # NoPanic THEN Panic(c, fb, w1.mem, w1.panic)
    ELSE IF c.i + 1 >= U16_MOD /\ overflow_checks THEN Panic(c, fb, w1.mem, AddOverflow)
    ELSE IF w2.panic # NoPanic THEN Panic(c, fb, w2.mem, w2.panic)
    ELSE IF c.i + 2 >= U16_MOD /\ overflow_checks THEN Panic(c, fb, w2.mem, AddOverflow)
    ELSE Panic(c, fb, w3.mem, w3.panic)

exec_LdBVx(c, fb, mem, x) ==
    LET num == V(c, x)
        hundreds == num \div 100
        tens == (num % 100) \div 10
        digits == num % 10
        w1 == Memory_write_byte(mem, c.i, hundreds)
        w2 == Memory_write_byte(w1.mem, (c.i + 1) % U16_MOD, tens)
        w3 == Memory_write_byte(w2.mem, (c.i + 2) % U16_MOD, digits)
    IN
    IF w1.panic # NoPanic THEN Panic(c, fb, w1.mem, w1.panic)
    ELSE IF c.i + 1 >= U16_MOD /\ overflow_checks THEN Panic(c, fb, w1.mem, AddOverflow)
    ELSE IF w2.panic # NoPanic THEN Panic(c, fb, w2.mem, w2.panic)
    ELSE IF c.i + 2 >= U16_MOD /\ overflow_checks THEN Panic(c, fb, w2.mem, AddOverflow)
    ELSE Panic(c, fb, w3.mem, w3.panic)

\* A faulty Fx55 that leaves I after the last byte stored; C24 does not hold of
\* it.
exec_LdIVx_advancing_i(c, fb, mem, x) ==
    LET w == Memory_write_data(mem, c.i, Slice(c.v, 0, x + 1)) IN
    Panic([c EXCEPT !.i = (c.i + x + 1) % U16_MOD], fb, w.mem, w.panic)

exec_LdIVx(c, fb, mem, x) ==
    LET w == Memory_write_data(mem, c.i, Slice(c.v, 0, x + 1)) IN
    Panic(c, fb, w.mem, w.panic)

exec_LdVxI(c, fb, mem, x) ==
    LET r == Memory_copy_into(mem, c.v, c.i, x + 1) IN
    Panic([c EXCEPT !.v = r.dest], fb, mem, r.panic)

\* fn exec(&mut self, instr, frame_buffer, mem, keypad); rand_byte is the byte
\* self.rng yields if asked.  Sys falls to the `_ => {}` arm.
Cpu_exec(c, instr, fb, mem, kp, rand_byte) ==
    CASE instr.op = "Cls" -> exec_Cls(c, fb, mem)
      [] instr.op = "Ret" -> exec_Ret(c, fb, mem)
      [] instr.op = "Jp" -> exec_Jp(c, fb, mem, instr.nnn)
      [] instr.op = "Call" -> exec_Call(c, fb, mem, instr.nnn)
      [] instr.op = "SeVxKK" -> exec_SeVxKK(c, fb, mem, instr.x, instr.kk)
      [] instr.op = "SneVxKK" -> exec_SneVxKK(c, fb, mem, instr.x, instr.kk)
      [] instr.op = "SeVxVy" -> exec_SeVxVy(c, fb, mem, instr.x, instr.y)
      [] instr.op = "SneVxVy" -> exec_SneVxVy(c, fb, mem, instr.x, instr.y)
      [] instr.op = "LdVxKK" -> exec_LdVxKK(c, fb, mem, instr.x, instr.kk)
      [] instr.op = "AddVxKK" -> exec_AddVxKK(c, fb, mem, instr.x, instr.kk)
      [] instr.op = "LdVxVy" -> exec_LdVxVy(c, fb, mem, instr.x, instr.y)
      [] instr.op = "OrVxVy" -> exec_OrVxVy(c, fb, mem, instr.x, instr.y)
      [] instr.op = "AndVxVy" -> exec_AndVxVy(c, fb, mem, instr.x, instr.y)
      [] instr.op = "XorVxVy" -> exec_XorVxVy(c, fb, mem, instr.x, instr.y)
      [] instr.op = "AddVxVy" -> exec_AddVxVy(c, fb, mem, instr.x, instr.y)
      [] instr.op = "SubVxVy" -> exec_SubVxVy(c, fb, mem, instr.x, instr.y)
      [] instr.op = "SubnVxVy" -> exec_SubnVxVy(c, fb, mem, instr.x, instr.y)
      [] instr.op = "ShrVx" -> exec_ShrVx(c, fb, mem, instr.x)
      [] instr.op = "ShlVx" -> exec_ShlVx(c, fb, mem, instr.x)
      [] instr.op = "LdI" -> exec_LdI(c, fb, mem, instr.nnn)
      [] instr.op = "JpV0" -> exec_JpV0(c, fb, mem, instr.nnn)
      [] instr.op = "RndVxKK" -> exec_RndVxKK(c, fb, mem, instr.x, instr.kk, rand_byte)
      [] instr.op = "DrwVxVyN" -> exec_DrwVxVyN(c, fb, mem, instr.x, instr.y, instr.n)
      [] instr.op = "SkpVx" -> exec_SkpVx(c, fb, mem, kp, instr.x)
      [] instr.op = "SknpVx" -> exec_SknpVx(c, fb, mem, kp, instr.x)
      [] instr.op = "LdVxDT" -> exec_LdVxDT(c, fb, mem, instr.x)
      [] instr.op = "LdVxK" -> exec_LdVxK(c, fb, mem, kp, instr.x)
      [] instr.op = "LdDTVx" -> exec_LdDTVx(c, fb, mem, instr.x)
      [] instr.op = "LdSTVx" -> exec_LdSTVx(c, fb, mem, instr.x)
      [] instr.op = "AddIVx" -> exec_AddIVx(c, fb, mem, instr.x)
      [] instr.op = "LdFVx" -> exec_LdFVx(c, fb, mem, instr.x)
      [] instr.op = "LdBVx" -> exec_LdBVx(c, fb, mem, instr.x)
      [] instr.op = "LdIVx" -> exec_LdIVx(c, fb, mem, instr.x)
      [] instr.op = "LdVxI" -> exec_LdVxI(c, fb, mem, instr.x)
      [] OTHER -> Done(c, fb, mem)

\* fn decode(&self, opcode: u16) -> Instr
Cpu_decode(opcode) == Instr_from(opcode)

(***************************************************************************)
(* SpecMem: the Memory interface called with addresses, lengths and data   *)
(* drawn from the sets below.  call records the access and hist the most   *)
(* recent write that completed.                                            *)
(***************************************************************************)
MaxMemOps == 2

MemAddrs == {0, 512, 4094, 4095, 4096, 65534, 65535}
MemLens == {0, 2, 4096, 61441, 65535}
CopyLens == {0, 2, 16, 65535}
MemBytes == {255}
MemWords == {61939}
MemData == {<< >>, <<241, 30>>}
DestLens == {16}

PayloadByte(k) == (k * 37 + 11) % U8_MOD
Payload(len) == [k \in 1..len |-> PayloadByte(k)]
RomLens == {0, 3, 3584, 3585, 65024, 65536, 65539}
\* the ROM files the loader is tried on, one of each length in RomLens
Roms == [len \in RomLens |-> Payload(len)]

NoWrite == [op |-> "none", address |-> 0, data |-> << >>]

MemInit ==
    /\ Chip8_new
    /\ call = [op |-> "new", address |-> 0, num_bytes |-> 0, ret |-> << >>]
    /\ hist = NoWrite

MemFrame == UNCHANGED <<overflow_checks, cpu, frame_buffer, keypad>>

\* a call that may store: r is [panic, mem]
MemStore(op, address, num_bytes, data, r) ==
    /\ memory' = r.mem
    /\ panicked' = r.panic
    /\ call' = [op |-> op, address |-> address, num_bytes |-> num_bytes, ret |-> << >>]
    /\ hist' = IF r.panic = NoPanic
               THEN [op |-> op, address |-> address, data |-> data]
               ELSE hist
    /\ n_ops' = n_ops + 1
    /\ MemFrame

\* a call that only reads: ret is what it returned
MemLoad(op, address, num_bytes, panic, ret) ==
    /\ panicked' = panic
    /\ call' = [op |-> op, address |-> address, num_bytes |-> num_bytes, ret |-> ret]
    /\ n_ops' = n_ops + 1
    /\ UNCHANGED <<memory, hist>>
    /\ MemFrame

LoadRom ==
    /\ panicked = NoPanic /\ n_ops < MaxMemOps
    /\ \E len \in RomLens :
         MemStore("load_rom", ROM_START_ADDRESS, len, Roms[len],
                  Memory_load_rom(memory, Roms[len]))

WriteByte ==
    /\ panicked = NoPanic /\ n_ops < MaxMemOps
    /\ \E a \in MemAddrs, b \in MemBytes :
         MemStore("write_byte", a, 1, <<b>>, Memory_write_byte(memory, a, b))

WriteWord ==
    /\ panicked = NoPanic /\ n_ops < MaxMemOps
    /\ \E a \in MemAddrs, w \in MemWords :
         MemStore("write_word", a, 2, <<w>>, Memory_write_word(memory, a, w))

WriteData ==
    /\ panicked = NoPanic /\ n_ops < MaxMemOps
    /\ \E a \in MemAddrs, d \in MemData :
         MemStore("write_data", a, Len(d), d, Memory_write_data(memory, a, d))

ReadByte ==
    /\ panicked = NoPanic /\ n_ops < MaxMemOps
    /\ \E a \in MemAddrs :
         LET r == Memory_read_byte(memory, a) IN
         MemLoad("read_byte", a, 1, r.panic, r.ret)

ReadWord ==
    /\ panicked = NoPanic /\ n_ops < MaxMemOps
    /\ \E a \in MemAddrs :
         LET r == Memory_read_word(memory, a) IN
         MemLoad("read_word", a, 2, r.panic, r.ret)

ReadData ==
    /\ panicked = NoPanic /\ n_ops < MaxMemOps
    /\ \E a \in MemAddrs, n \in MemLens :
         LET r == Memory_read_data(memory, a, n) IN
         MemLoad("read_data", a, n, r.panic, r.ret)

\* copy_into a fresh zeroed destination of dl bytes; ret is the destination after
CopyInto ==
    /\ panicked = NoPanic /\ n_ops < MaxMemOps
    /\ \E a \in MemAddrs, n \in CopyLens, dl \in DestLens :
         LET r == Memory_copy_into(memory, [k \in 1..dl |-> 0], a, n) IN
         MemLoad("copy_into", a, n, r.panic,
                 IF r.panic = NoPanic THEN r.dest ELSE << >>)

MemNext ==
    \/ LoadRom
    \/ WriteByte
    \/ WriteWord
    \/ WriteData
    \/ ReadByte
    \/ ReadWord
    \/ ReadData
    \/ CopyInto

SpecMem == MemInit /\ [][MemNext]_vars

(***************************************************************************)
(* SpecFb: the FrameBuffer interface called with positions and sprites     *)
(* drawn from the sets below.  call records the call and what it returned, *)
(* hist the pixels just before it.                                         *)
(***************************************************************************)
MaxFbOps == 2

FbXs == {60, 250}
FbYs == {2, 31, 255}
\* A sprite taller than the screen: rows 0 and 32 both have their leftmost bit set.
TallSprite == <<128>> \o [k \in 1..(BUFFER_HEIGHT - 1) |-> 0] \o <<128>>
Sprites == {<<0>>, <<151>>, <<255, 129>>, TallSprite}

FbInit ==
    /\ Chip8_new
    /\ call = [op |-> "default", x |-> 0, y |-> 0, data |-> << >>, ret |-> FALSE]
    /\ hist = [buffer |-> frame_buffer.buffer, call |-> call]

FbFrame == UNCHANGED <<overflow_checks, cpu, memory, keypad>>

Draw ==
    /\ panicked = NoPanic /\ n_ops < MaxFbOps
    /\ \E x \in FbXs, y \in FbYs, data \in Sprites :
         LET r == FrameBuffer_draw(frame_buffer, x, y, data) IN
         /\ frame_buffer' = r.fb
         /\ panicked' = r.panic
         /\ call' = [op |-> "draw", x |-> x, y |-> y, data |-> data, ret |-> r.collided]
    /\ hist' = [buffer |-> frame_buffer.buffer, call |-> call]
    /\ n_ops' = n_ops + 1
    /\ FbFrame

Clear ==
    /\ panicked = NoPanic /\ n_ops < MaxFbOps
    /\ frame_buffer' = FrameBuffer_clear(frame_buffer)
    /\ call' = [op |-> "clear", x |-> 0, y |-> 0, data |-> << >>, ret |-> FALSE]
    /\ hist' = [buffer |-> frame_buffer.buffer, call |-> call]
    /\ n_ops' = n_ops + 1
    /\ UNCHANGED panicked
    /\ FbFrame

SetChanged ==
    /\ panicked = NoPanic /\ n_ops < MaxFbOps
    /\ \E changed \in BOOLEAN :
         frame_buffer' = FrameBuffer_set_changed(frame_buffer, changed)
    /\ call' = [op |-> "set_changed", x |-> 0, y |-> 0, data |-> << >>,
                ret |-> FrameBuffer_has_changed(frame_buffer')]
    /\ hist' = [buffer |-> frame_buffer.buffer, call |-> call]
    /\ n_ops' = n_ops + 1
    /\ UNCHANGED panicked
    /\ FbFrame

FbNext ==
    \/ Draw
    \/ Clear
    \/ SetChanged

SpecFb == FbInit /\ [][FbNext]_vars

(***************************************************************************)
(* SpecExec: Cpu::exec applied to decoded opcodes, from a Cpu whose        *)
(* registers V0, V1 and VF were set directly.  call records the opcode and *)
(* its decoding, hist the Cpu before the call.                             *)
(***************************************************************************)
MaxExecs == 1

RegVals == {1, 2, 255}
RandBytes == {165}

\* 8xy4, 8xy5, 8xy7, 8xy6 and 8xyE over the registers 0, 1 and F
ArithOpcodes ==
    {32768 + x * 256 + y * 16 + n : x \in {0, 1, 15}, y \in {0, 1, 15}, n \in {4, 5, 7}}
        \cup {32768 + x * 256 + n : x \in {0, 1, 15}, n \in {6, 14}}

\* 0123 00E0 00EE 1234 2234 3001 4001 5010 5011 6005 7001 8010 8011 8012 8013
\* 9010 A123 B123 C00F D015 E09E E0A1 E000 F007 F00A F015 F018 F01E F029 F033
\* F055 F065
OtherOpcodes ==
    {291, 224, 238, 4660, 8756, 12289, 16385, 20496, 20497, 24581, 28673,
     32784, 32785, 32786, 32787, 36880, 41251, 45347, 49167, 53269, 57502,
     57505, 57344, 61447, 61450, 61461, 61464, 61470, 61481, 61491, 61525,
     61541}

Opcodes == ArithOpcodes \cup OtherOpcodes

NoInstr == Instr("none", 0)

ExecInit ==
    /\ overflow_checks \in BOOLEAN
    /\ \E v0 \in RegVals, v1 \in RegVals, vf \in RegVals :
         cpu = SetV(SetV(SetV(Cpu_new, 0, v0), 1, v1), 15, vf)
    /\ frame_buffer = FrameBuffer_default
    /\ memory = Memory_new
    /\ keypad = Keypad_default
    /\ panicked = NoPanic
    /\ n_ops = 0
    /\ call = [op |-> "new", opcode |-> 0, instr |-> NoInstr]
    /\ hist = [cpu |-> cpu]

\* One decode and exec of an opcode drawn from opcodes.
ExecStep(opcodes) ==
    /\ panicked = NoPanic /\ n_ops < MaxExecs
    /\ \E opcode \in opcodes, rand_byte \in RandBytes :
         LET instr == Cpu_decode(opcode)
             r == Cpu_exec(cpu, instr, frame_buffer, memory, keypad, rand_byte)
         IN
         /\ call' = [op |-> "exec", opcode |-> opcode, instr |-> instr]
         /\ IF instr.op = "unknown"
            THEN /\ panicked' = UnknownInstruction
                 /\ UNCHANGED <<cpu, frame_buffer, memory>>
            ELSE /\ cpu' = r.cpu
                 /\ frame_buffer' = r.fb
                 /\ memory' = r.mem
                 /\ panicked' = r.panic
    /\ hist' = [cpu |-> cpu]
    /\ n_ops' = n_ops + 1
    /\ UNCHANGED <<overflow_checks, keypad>>

Exec == ExecStep(Opcodes)

ExecNext == Exec

SpecExec == ExecInit /\ [][ExecNext]_vars

(***************************************************************************)
(* SpecAnyByte: Cpu::exec applied to 7xkk and Fx33 from a Cpu whose V0     *)
(* holds any byte and whose I was set directly.                            *)
(***************************************************************************)
AnyByte == 0..(U8_MOD - 1)
IVals == {528, 4093}

\* 7001 70FF 7F01 7FFF F033 FF33
AnyByteOpcodes == {28673, 28927, 32513, 32767, 61491, 65331}

AnyByteInit ==
    /\ overflow_checks \in BOOLEAN
    /\ \E v0 \in AnyByte, i \in IVals :
         cpu = [SetV(SetV(SetV(Cpu_new, 0, v0), 1, 200), 15, 100) EXCEPT !.i = i]
    /\ frame_buffer = FrameBuffer_default
    /\ memory = Memory_new
    /\ keypad = Keypad_default
    /\ panicked = NoPanic
    /\ n_ops = 0
    /\ call = [op |-> "new", opcode |-> 0, instr |-> NoInstr]
    /\ hist = [cpu |-> cpu]

AnyByteExec == ExecStep(AnyByteOpcodes)

AnyByteNext == AnyByteExec

SpecAnyByte == AnyByteInit /\ [][AnyByteNext]_vars

(***************************************************************************)
(* SpecKeypad: Keypad::set_down on any key, and Cpu::exec applied to Fx0A. *)
(***************************************************************************)
MaxKeysDown == 3

KeypadInit ==
    /\ Chip8_new
    /\ call = [op |-> "new", opcode |-> 0, instr |-> NoInstr]
    /\ hist = [cpu |-> cpu]

\* keypad.set_down(idx, down), before the instruction is executed
SetDown ==
    /\ panicked = NoPanic /\ n_ops = 0
    /\ \E idx \in 0..(KEY_COUNT - 1), down \in BOOLEAN :
         LET r == Keypad_set_down(keypad, idx, down) IN
         /\ Cardinality({k \in 0..(KEY_COUNT - 1) : At(r.kp.keys, k)}) <= MaxKeysDown
         /\ keypad' = r.kp
         /\ panicked' = r.panic
    /\ call' = [op |-> "set_down", opcode |-> 0, instr |-> NoInstr]
    /\ UNCHANGED <<overflow_checks, cpu, frame_buffer, memory, hist, n_ops>>

\* F00A F10A
KeyWaitExec == ExecStep({61450, 61706})

KeypadNext == SetDown \/ KeyWaitExec

SpecKeypad == KeypadInit /\ [][KeypadNext]_vars

(***************************************************************************)
(* SpecDecode: Instr::from applied to opcodes of every pattern.            *)
(***************************************************************************)
MaxDecodes == 2
\* every first, third and fourth nibble, with these second nibbles (x)
XNibbles == {0, 1, 10, 15}
DecodeOpcodes ==
    {4096 * n1 + 256 * n2 + 16 * n3 + n4 :
        n1 \in 0..15, n2 \in XNibbles, n3 \in 0..15, n4 \in 0..15}

DecodeInit ==
    /\ Chip8_new
    /\ \E opcode \in DecodeOpcodes :
         call = [op |-> "new", opcode |-> opcode, instr |-> NoInstr]
    /\ hist = [instr |-> NoInstr]

\* Instr::from(opcode); unreachable! panics
Decode ==
    /\ panicked = NoPanic /\ n_ops < MaxDecodes
    /\ LET instr == Instr_from(call.opcode) IN
         /\ call' = [op |-> "from", opcode |-> call.opcode, instr |-> instr]
         /\ panicked' = IF instr.op = "unknown" THEN UnknownInstruction ELSE NoPanic
    /\ hist' = [instr |-> call.instr]
    /\ n_ops' = n_ops + 1
    /\ UNCHANGED <<overflow_checks, cpu, frame_buffer, memory, keypad>>

DecodeNext == Decode

SpecDecode == DecodeInit /\ [][DecodeNext]_vars

(***************************************************************************)
(* chip8/cpu.rs (update_timers, fetch, cycle), chip8/chip8.rs and app.rs   *)
(***************************************************************************)
\* A faulty update_timers that decrements without testing for zero; C14 does
\* not hold of it.
Cpu_update_timers_wrapping(c) ==
    [c EXCEPT !.dt = (@ - 1) % U8_MOD, !.st = (@ - 1) % U8_MOD]

\* pub fn update_timers(&mut self)
Cpu_update_timers(c) ==
    [c EXCEPT !.dt = IF @ > 0 THEN @ - 1 ELSE @,
              !.st = IF @ > 0 THEN @ - 1 ELSE @]

\* A faulty fetch that wraps PC into the 4096 bytes; C35 does not hold of it.
Cpu_fetch_wrapping(c, mem) == Memory_read_word(mem, c.pc % MEM_SIZE)

\* fn fetch(&self, mem: &Memory) -> u16: [panic, ret]
Cpu_fetch(c, mem) == Memory_read_word(mem, c.pc)

\* pub fn cycle(&mut self, frame_buffer, mem, keypad): what the call leaves
\* behind as res = [cpu, fb, mem, panic], with the opcode fetched and its decoding
Cpu_cycle(c, fb, mem, kp, rand_byte) ==
    LET fetched == Cpu_fetch(c, mem)
        skipped == Cpu_skip(c)
        instr == Cpu_decode(fetched.ret)
    IN
    IF fetched.panic # NoPanic
    THEN [res |-> Panic(c, fb, mem, fetched.panic), opcode |-> 0, instr |-> NoInstr]
    ELSE IF skipped.panic # NoPanic
    THEN [res |-> Panic(c, fb, mem, skipped.panic), opcode |-> fetched.ret,
          instr |-> NoInstr]
    ELSE IF instr.op = "unknown"
    THEN [res |-> Panic(skipped.cpu, fb, mem, UnknownInstruction),
          opcode |-> fetched.ret, instr |-> instr]
    ELSE [res |-> Cpu_exec(skipped.cpu, instr, fb, mem, kp, rand_byte),
          opcode |-> fetched.ret, instr |-> instr]

\* pub fn load_rom(&mut self, contents: &[u8]): [panic, mem]
Chip8_load_rom(mem, contents) == Memory_load_rom(mem, contents)

\* A faulty cpu_cycle that also counts the timers down; C32 does not hold of
\* it.
Chip8_cpu_cycle_ticking(c, fb, mem, kp, rand_byte) ==
    LET r == Cpu_cycle(c, fb, mem, kp, rand_byte) IN
    [r EXCEPT !.res.cpu = Cpu_update_timers(@)]

\* pub fn cpu_cycle(&mut self)
Chip8_cpu_cycle(c, fb, mem, kp, rand_byte) == Cpu_cycle(c, fb, mem, kp, rand_byte)

\* pub fn timers_tick(&mut self)
Chip8_timers_tick(c) == Cpu_update_timers(c)

\* A faulty handle_keypad that sets the keys reported down and never releases
\* a key; C30 does not hold of it.
handle_keypad_press_only(kp, held) ==
    [kp EXCEPT !.keys = [k \in 1..KEY_COUNT |-> @[k] \/ (k - 1) \in held]]

\* fn handle_keypad(&mut self, window): every key i is set down exactly when
\* the window reports KEYS[i] down; held is the set of those i
handle_keypad(kp, held) == [kp EXCEPT !.keys = [k \in 1..KEY_COUNT |-> (k - 1) \in held]]

\* fn refresh_screen(&self, window): the panic of the unreachable! arm, if a
\* buffer byte is neither 0 nor 1
refresh_screen(fb) ==
    IF fb.buffer \in Seq({0, 1}) THEN NoPanic ELSE UnreachablePixel

(***************************************************************************)
(* Spec: Chip8App::run.  A program is loaded, then the main loop runs its  *)
(* three timed branches in any order: key polling with one cpu cycle, the  *)
(* timers tick, the screen refresh.  call records the last branch taken;   *)
(* hist counts what the claims relate: timer ticks since the timers were   *)
(* last written, calls and returns executed, whether the last branch       *)
(* pushed the pixels to the window, and the keys the window reported down  *)
(* at the last poll.                                                       *)
(***************************************************************************)
MaxCycles == 8
MaxTicks == 6

\* Big-endian bytes of a sequence of opcodes
Words(ops) ==
    [k \in 1..(2 * Len(ops)) |->
        IF k % 2 = 1 THEN ops[(k + 1) \div 2] \div 256 ELSE ops[k \div 2] % 256]

\* 6005 7003 00EE
ProgAdd == <<24581, 28675, 238>>
\* 6005 F015 6003 F018 F107 1208
ProgTimers == <<24581, 61461, 24579, 61464, 61703, 4616>>
\* F10A 7101 1204
ProgKeyWait == <<61706, 28929, 4612>>
\* 200: 2206  202: 220A  204: 1204  206: 220A  208: 00EE  20A: 00EE
ProgCalls == <<8710, 8714, 4612, 8714, 238, 238>>
\* 6001 5001 7005 9011
ProgUndocumented == <<24577, 20481, 28677, 36881>>
\* 00E0 A20E 6A8B FA33 D125 CB0F FA1E F155 (data at 20E: none)
ProgMisc == <<224, 41486, 27275, 64051, 53541, 51983, 64030, 61781>>
\* F10A E19E 1200
ProgKeyPoll == <<61706, 57758, 4608>>

\* 6005 F015 F10A F207 1208
ProgTimedWait == <<24581, 61461, 61706, 61959, 4616>>

\* A000 D005 D005 00E0 D005 120A: the glyph 0 drawn at (0, 0), drawn again
\* over itself, cleared and drawn
ProgDraw == <<40960, 53253, 53253, 224, 53253, 4618>>

Programs == {ProgAdd, ProgTimers, ProgKeyWait, ProgCalls, ProgUndocumented, ProgMisc,
             ProgKeyPoll, ProgTimedWait, ProgDraw}

KeySets == {{}, {3, 12}}

Init ==
    /\ overflow_checks \in BOOLEAN
    /\ cpu = Cpu_new
    /\ frame_buffer = FrameBuffer_default
    /\ keypad = Keypad_default
    /\ \E prog \in Programs :
         LET loaded == Chip8_load_rom(Memory_new, Words(prog)) IN
         /\ memory = loaded.mem
         /\ panicked = loaded.panic
    /\ n_ops = 0
    /\ call = [op |-> "load_rom", pc |-> 0, opcode |-> 0, instr |-> NoInstr]
    /\ hist = [ticks |-> 0, dt_set |-> 0, dt_ticks |-> 0, st_set |-> 0, st_ticks |-> 0,
               calls |-> 0, rets |-> 0, pushed |-> FALSE, held |-> {}]

\* app.rs:73-77: handle_keypad, then chip8.cpu_cycle
CpuCycle ==
    /\ panicked = NoPanic /\ n_ops < MaxCycles
    /\ \E held \in KeySets, rand_byte \in RandBytes :
         LET polled == handle_keypad(keypad, held)
             r == Chip8_cpu_cycle(cpu, frame_buffer, memory, polled, rand_byte)
             op == r.instr.op
             ran == r.res.panic = NoPanic
         IN
         /\ keypad' = polled
         /\ cpu' = r.res.cpu
         /\ frame_buffer' = r.res.fb
         /\ memory' = r.res.mem
         /\ panicked' = r.res.panic
         /\ call' = [op |-> "cpu_cycle", pc |-> cpu.pc, opcode |-> r.opcode,
                     instr |-> r.instr]
         /\ hist' = [hist EXCEPT
                !.dt_set = IF ran /\ op = "LdDTVx" THEN r.res.cpu.dt ELSE @,
                !.dt_ticks = IF ran /\ op = "LdDTVx" THEN 0 ELSE @,
                !.st_set = IF ran /\ op = "LdSTVx" THEN r.res.cpu.st ELSE @,
                !.st_ticks = IF ran /\ op = "LdSTVx" THEN 0 ELSE @,
                !.calls = IF ran /\ op = "Call" THEN @ + 1 ELSE @,
                !.rets = IF ran /\ op = "Ret" /\ Len(cpu.stack) > 0 THEN @ + 1 ELSE @,
                !.pushed = FALSE,
                !.held = held]
    /\ n_ops' = n_ops + 1
    /\ UNCHANGED overflow_checks

\* app.rs:78-81: chip8.timers_tick
TimersTick ==
    /\ panicked = NoPanic /\ hist.ticks < MaxTicks
    /\ cpu' = Chip8_timers_tick(cpu)
    /\ call' = [op |-> "timers_tick", pc |-> cpu.pc, opcode |-> 0, instr |-> NoInstr]
    /\ hist' = [hist EXCEPT !.ticks = @ + 1, !.dt_ticks = @ + 1, !.st_ticks = @ + 1,
                            !.pushed = FALSE]
    /\ UNCHANGED <<overflow_checks, frame_buffer, memory, keypad, panicked, n_ops>>

\* app.rs:82-85: refresh_screen, which takes &self (the frame buffer, its
\* has_changed flag included, is left as it was) and, unless a pixel is neither
\* 0 nor 1, calls window.update_with_buffer with the converted pixels
\* (app.rs:121-123); hist.pushed records that call
RefreshScreen ==
    /\ panicked = NoPanic
    /\ panicked' = refresh_screen(frame_buffer)
    /\ call' = [op |-> "refresh_screen", pc |-> cpu.pc, opcode |-> 0, instr |-> NoInstr]
    /\ hist' = [hist EXCEPT !.pushed = (refresh_screen(frame_buffer) = NoPanic)]
    /\ UNCHANGED <<overflow_checks, cpu, frame_buffer, memory, keypad, n_ops>>

Next ==
    \/ CpuCycle
    \/ TimersTick
    \/ RefreshScreen

Spec == Init /\ [][Next]_vars

(***************************************************************************)
(* SpecRun: Chip8::cpu_cycle repeated on a loaded program, the keys held    *)
(* throughout set before the first cycle.                                  *)
(***************************************************************************)
MaxRunCycles == 18

\* 60kk F029 E09E E0A1 E0A1 120A: V0 = kk, the glyph address of V0, both key
\* tests on V0 (the E0A1 at 0x206 after no skip, that at 0x208 after a skip)
ProgKeyTest(kk) == <<24576 + kk, 61481, 57502, 57505, 57505, 4618>>

\* A005 FF65 Annn Fx55 Fx65 A00A Fx65 120E: V0..VF from the font bytes 5..20,
\* V0..Vx stored at nnn and loaded back, then V0..Vx loaded from the font
\* bytes 10..
ProgStoreLoad(x, nnn) ==
    <<40965, 65381, 40960 + nnn, 61525 + 256 * x, 61541 + 256 * x, 40970,
      61541 + 256 * x, 4622>>

\* 2200: a call of itself
ProgNest == <<8704>>

\* A rom that fills the memory from 0x200 to its end: the opcodes w0 and w1 at
\* 0x200 and 0x202, at_ffc and at_ffe at 0xFFC and 0xFFE, 0000 between
ProgEnd(w0, w1, at_ffc, at_ffe) ==
    [k \in 1..((MEM_SIZE - ROM_START_ADDRESS) \div 2) |->
        IF k = 1 THEN w0
        ELSE IF k = 2 THEN w1
        ELSE IF k = (MEM_SIZE - ROM_START_ADDRESS) \div 2 - 1 THEN at_ffc
        ELSE IF k = (MEM_SIZE - ROM_START_ADDRESS) \div 2 THEN at_ffe
        ELSE 0]

\* 1FFC .. 6005 7003 (runs off the end); 1FFC .. 3000 0000 (skip taken at
\* 0xFFC); 1FFE .. 3000 (skip taken at 0xFFE); 1FFE .. 3001 (skip not taken at
\* 0xFFE); 60FF BFFF (PC = 0x10FE); 60FF BF00 (PC = 0xFFF); 60FE BF00
\* (PC = 0xFFE)
RunPrograms ==
    {ProgKeyTest(kk) : kk \in 0..15 \cup {16, 52, 255}}
        \cup {ProgEnd(8188, 0, 24581, 28675), ProgEnd(8188, 0, 12288, 0),
              ProgEnd(8190, 0, 0, 12288), ProgEnd(8190, 0, 0, 12289),
              ProgEnd(24831, 49151, 0, 0), ProgEnd(24831, 48896, 0, 0),
              ProgEnd(24830, 48896, 0, 0)}
        \cup {ProgStoreLoad(x, 768) : x \in 0..15}
        \cup {ProgStoreLoad(x, MEM_SIZE - 1 - x) : x \in 0..15}
        \cup {ProgNest}

\* no key, the even keys, the odd keys
RunKeySets == {{}, {2 * k : k \in 0..7}, {2 * k + 1 : k \in 0..7}}

RunInit ==
    /\ overflow_checks \in BOOLEAN
    /\ cpu = Cpu_new
    /\ frame_buffer = FrameBuffer_default
    /\ \E held \in RunKeySets : keypad = handle_keypad(Keypad_default, held)
    /\ \E prog \in RunPrograms :
         LET loaded == Chip8_load_rom(Memory_new, Words(prog)) IN
         /\ memory = loaded.mem
         /\ panicked = loaded.panic
    /\ n_ops = 0
    /\ call = [op |-> "load_rom", pc |-> 0, opcode |-> 0, instr |-> NoInstr]
    /\ hist = [cpu |-> cpu]

\* chip8.cpu_cycle(); hist keeps the Cpu the cycle started from
RunCycle ==
    /\ panicked = NoPanic /\ n_ops < MaxRunCycles
    /\ \E rand_byte \in RandBytes :
         LET r == Chip8_cpu_cycle(cpu, frame_buffer, memory, keypad, rand_byte) IN
         /\ cpu' = r.res.cpu
         /\ frame_buffer' = r.res.fb
         /\ memory' = r.res.mem
         /\ panicked' = r.res.panic
         /\ call' = [op |-> "cpu_cycle", pc |-> cpu.pc, opcode |-> r.opcode,
                     instr |-> r.instr]
    /\ hist' = [cpu |-> cpu]
    /\ n_ops' = n_ops + 1
    /\ UNCHANGED <<overflow_checks, keypad>>

SpecRun == RunInit /\ [][RunCycle]_vars

(***************************************************************************)
(* SpecWait: the cycle branch of Chip8App::run taken for ever on a program *)
(* that waits for a key and jumps back to the wait.  Nothing is counted,   *)
(* so behaviours are infinite; the main loop takes the cycle branch        *)
(* whenever the cycle interval has elapsed (app.rs:72-77), which is the    *)
(* weak fairness of WaitCycle.  hist keeps the Cpu the cycle started from  *)
(* and the keys the window reported down at its poll.                      *)
(***************************************************************************)
\* Fx0A 1200
ProgWait(x) == <<61450 + 256 * x, 4608>>

\* no key, some single keys, keys 3 and C
WaitKeySets == {{}, {0}, {3}, {7}, {12}, {15}, {3, 12}}

WaitInit ==
    /\ overflow_checks \in BOOLEAN
    /\ cpu = Cpu_new
    /\ frame_buffer = FrameBuffer_default
    /\ keypad = Keypad_default
    /\ \E prog \in {ProgWait(0), ProgWait(10)} :
         LET loaded == Chip8_load_rom(Memory_new, Words(prog)) IN
         /\ memory = loaded.mem
         /\ panicked = loaded.panic
    /\ n_ops = 0
    /\ call = [op |-> "load_rom", pc |-> 0, opcode |-> 0, instr |-> NoInstr]
    /\ hist = [cpu |-> cpu, held |-> {}]

\* app.rs:73-77: handle_keypad, then chip8.cpu_cycle
WaitCycle ==
    /\ panicked = NoPanic
    /\ \E held \in WaitKeySets :
         /\ keypad' = handle_keypad(keypad, held)
         /\ hist' = [cpu |-> cpu, held |-> held]
         /\ \E rand_byte \in RandBytes :
              \E r \in {Chip8_cpu_cycle(cpu, frame_buffer, memory, keypad', rand_byte)} :
                /\ cpu' = r.res.cpu
                /\ frame_buffer' = r.res.fb
                /\ memory' = r.res.mem
                /\ panicked' = r.res.panic
                /\ call' = [op |-> "cpu_cycle", pc |-> cpu.pc, opcode |-> r.opcode,
                            instr |-> r.instr]
    /\ UNCHANGED <<overflow_checks, n_ops>>

SpecWait == WaitInit /\ [][WaitCycle]_vars /\ WF_vars(WaitCycle)

(***************************************************************************)
(* Claims about Memory, checked under SpecMem                              *)
(***************************************************************************)
MemWriteOps == {"write_byte", "write_word", "write_data", "load_rom"}
MemReadOps == {"read_byte", "read_word", "read_data", "copy_into"}

\* C1: an access with address + length <= 4096 completes, and a read of what
\* the most recent write stored returns it: read_data after write_data gives
\* the bytes, read_byte after write_byte the byte, read_word after write_word
\* the word.
C1_RoundTrip ==
    /\ (call.op \in (MemWriteOps \cup MemReadOps) \ {"copy_into"}
          /\ call.address + call.num_bytes <= MEM_SIZE)
       => panicked = NoPanic
    /\ (call.op = "read_data" /\ hist.op = "write_data"
          /\ call.address = hist.address /\ call.num_bytes = Len(hist.data))
       => call.ret = hist.data
    /\ (call.op = "read_byte" /\ hist.op = "write_byte"
          /\ call.address = hist.address)
       => call.ret = hist.data[1]
    /\ (call.op = "read_word" /\ hist.op = "write_word"
          /\ call.address = hist.address)
       => call.ret = hist.data[1]

C1_Witness ==
    /\ call.op = "read_data" /\ hist.op = "write_data"
    /\ call.address = 4094 /\ hist.address = 4094
    /\ call.ret = <<241, 30>>
    /\ panicked = NoPanic

\* C2: an access with address + length > 4096 (as integers) panics, returns
\* nothing and stores nothing; while address + length fits 16 bits the panic
\* is the memory's own "illegal memory access".
C2_OutOfBoundsFaults ==
    [][(call'.op \in MemWriteOps \cup MemReadOps
          /\ call'.address + call'.num_bytes > MEM_SIZE)
       => /\ panicked' # NoPanic
          /\ memory' = memory
          /\ call'.ret = << >>
          /\ (call'.address + call'.num_bytes < U16_MOD => panicked' = IllegalAccess)]_vars

C2_Witness ==
    /\ call.op = "read_word" /\ call.address = 65535
    /\ ~overflow_checks
    /\ panicked = IndexOutOfBounds

\* C3: load_rom of more than 4096 - 512 bytes panics, whatever the length,
\* and no load that completed was of more than 4096 - 512 bytes.
C3_OversizeRomFaults ==
    /\ (call.op = "load_rom" /\ call.num_bytes > MEM_SIZE - ROM_START_ADDRESS)
       => panicked # NoPanic
    /\ hist.op = "load_rom" => Len(hist.data) <= MEM_SIZE - ROM_START_ADDRESS

C3_Witness ==
    /\ call.op = "load_rom" /\ call.num_bytes = 65539
    /\ panicked = SliceIndex

\* C4: load_rom of at most 3584 bytes completes; afterwards byte 0x200 + i is
\* payload byte i, every other byte is as before, and when the load is the
\* first call after construction bytes 0..79 are the glyph table.
C4_RomLoadedVerbatim ==
    [][(call'.op = "load_rom" /\ call'.num_bytes <= MEM_SIZE - ROM_START_ADDRESS)
       => /\ panicked' = NoPanic
          /\ \A k \in 0..(MEM_SIZE - 1) :
                At(memory'.bytes, k) =
                   IF k >= ROM_START_ADDRESS /\ k < ROM_START_ADDRESS + call'.num_bytes
                   THEN Roms[call'.num_bytes][k - ROM_START_ADDRESS + 1]
                   ELSE At(memory.bytes, k)
          /\ (n_ops = 0 =>
                \A k \in 0..(Len(FONT_SPRITES) - 1) :
                    At(memory'.bytes, k) = FONT_SPRITES[k + 1])]_vars

C4_Witness ==
    /\ call.op = "load_rom" /\ call.num_bytes = 3584
    /\ panicked = NoPanic
    /\ At(memory.bytes, 4095) = PayloadByte(3584)
    /\ At(memory.bytes, 79) = 128

(***************************************************************************)
(* Claims about FrameBuffer, checked under SpecFb.  In a state reached by  *)
(* a call, call is that call, hist.buffer the pixels before it and         *)
(* hist.call the call before it.                                           *)
(***************************************************************************)
SameDraw(c, d) ==
    /\ c.op = "draw" /\ d.op = "draw"
    /\ c.x = d.x /\ c.y = d.y /\ c.data = d.data

SetBits(data) ==
    {rc \in (0..(Len(data) - 1)) \X (0..7) : Bit(data[rc[1] + 1], 7 - rc[2]) = 1}

\* The buffer index of pixel ((x + col) mod 64, (y + row) mod 32).
Target(x, y, rc) ==
    ((y + rc[1]) % BUFFER_HEIGHT) * BUFFER_WIDTH + ((x + rc[2]) % BUFFER_WIDTH)

\* C6: draw returns true if and only if at least one set bit of the sprite
\* lands on a pixel that was 1 before the draw, for every 8-bit position (x, y),
\* wrapping positions included.
C6_CollisionIffOverlap ==
    call.op = "draw" =>
        /\ panicked = NoPanic
        /\ call.ret <=> \E rc \in SetBits(call.data) :
                            At(hist.buffer, Target(call.x, call.y, rc)) = 1

\* C7: for every 8-bit x and y and every sprite, draw(x, y, sprite) toggles
\* exactly the pixels ((x+col) mod 64, (y+row) mod 32) for which bit (7-col) of
\* sprite byte number row is 1, and leaves every other pixel unchanged.
C7_TogglesExactlySetBits ==
    call.op = "draw" =>
        /\ panicked = NoPanic
        /\ LET targets == {Target(call.x, call.y, rc) : rc \in SetBits(call.data)} IN
           \A p \in 0..(BUFFER_WIDTH * BUFFER_HEIGHT - 1) :
               At(frame_buffer.buffer, p) =
                   IF p \in targets THEN 1 - At(hist.buffer, p) ELSE At(hist.buffer, p)

(***************************************************************************)
(* Claims about Cpu::exec, checked under SpecExec.  In a state reached by  *)
(* Exec, call.opcode is the opcode executed and hist.cpu the Cpu before.   *)
(***************************************************************************)
\* The call executed an opcode 8xyn with last nibble n.
Executed8(n) == call.op = "exec" /\ call.opcode \div 4096 = 8 /\ call.opcode % 16 = n

OpX == (call.opcode \div 256) % 16

OpY == (call.opcode \div 16) % 16

\* C8: after 8xy4, for all register indices x and y in 0..15 and all register
\* values, Vx holds (Vx + Vy) mod 256 of the pre-operation values and VF holds
\* 1 if the pre-operation sum exceeded 255 and 0 otherwise.
C8_AddWithCarry ==
    Executed8(4) =>
        /\ panicked = NoPanic
        /\ V(cpu, OpX) = (V(hist.cpu, OpX) + V(hist.cpu, OpY)) % 256
        /\ V(cpu, 15) = IF V(hist.cpu, OpX) + V(hist.cpu, OpY) > 255 THEN 1 ELSE 0

\* C9: after a subtract instruction, for all register indices x and y in
\* 0..15, VF holds NOT borrow of the pre-operation operands and Vx holds the
\* difference mod 256: 8xy5 gives Vx - Vy and VF = 1 iff Vx >= Vy, 8xy7 gives
\* Vy - Vx and VF = 1 iff Vy >= Vx.
C9_SubtractNotBorrow ==
    /\ Executed8(5) =>
        /\ panicked = NoPanic
        /\ V(cpu, OpX) = (V(hist.cpu, OpX) - V(hist.cpu, OpY)) % 256
        /\ V(cpu, 15) = IF V(hist.cpu, OpX) >= V(hist.cpu, OpY) THEN 1 ELSE 0
    /\ Executed8(7) =>
        /\ panicked = NoPanic
        /\ V(cpu, OpX) = (V(hist.cpu, OpY) - V(hist.cpu, OpX)) % 256
        /\ V(cpu, 15) = IF V(hist.cpu, OpY) >= V(hist.cpu, OpX) THEN 1 ELSE 0

\* C10: after 8xy6, VF equals the least-significant bit of the value Vx held
\* before the shift and Vx equals that value shifted right by one bit, for
\* every register index x and every value of Vx.
C10_ShiftRightFlag ==
    Executed8(6) =>
        /\ panicked = NoPanic
        /\ V(cpu, 15) = V(hist.cpu, OpX) % 2
        /\ V(cpu, OpX) = V(hist.cpu, OpX) \div 2

\* C11: after 8xyE, VF equals the most-significant bit of the value Vx held
\* before the shift and Vx equals (that value * 2) mod 256, for every register
\* index x and every value of Vx.
C11_ShiftLeftFlag ==
    Executed8(14) =>
        /\ panicked = NoPanic
        /\ V(cpu, 15) = V(hist.cpu, OpX) \div 128
        /\ V(cpu, OpX) = (V(hist.cpu, OpX) * 2) % 256

(***************************************************************************)
(* Claims about 7xkk and Fx33, checked under SpecAnyByte.                  *)
(***************************************************************************)
\* C12: executing 7xkk sets Vx to (Vx + kk) mod 256 for every Vx and kk, never
\* faults on overflow, and leaves every other register (VF included when
\* x # 15), I, PC, the timers and the stack unchanged.
C12_AddImmediateWraps ==
    (call.op = "exec" /\ call.opcode \div 4096 = 7) =>
        /\ panicked = NoPanic
        /\ call.instr.op = "AddVxKK"
        /\ cpu = SetV(hist.cpu, OpX, (V(hist.cpu, OpX) + (call.opcode % 256)) % 256)

C12_Witness ==
    /\ call.op = "exec" /\ call.opcode = 28927
    /\ overflow_checks
    /\ V(hist.cpu, 0) = 255 /\ V(cpu, 0) = 254
    /\ V(cpu, 15) = 100
    /\ panicked = NoPanic

\* C13: executing Fx33 with I + 2 < 4096 stores at I, I+1, I+2 the hundreds,
\* tens and ones decimal digits of Vx: each stored byte is in 0..9 and
\* 100*mem[I] + 10*mem[I+1] + mem[I+2] = Vx, for every value of Vx in 0..255;
\* Vx, I and all other memory bytes are unchanged.
C13_BcdStore ==
    [][(/\ call'.op = "exec"
        /\ call'.opcode \div 4096 = 15 /\ call'.opcode % 256 = 51
        /\ cpu.i + 2 < MEM_SIZE)
       => LET vx == V(cpu, (call'.opcode \div 256) % 16)
              stored == [k \in 0..2 |-> At(memory'.bytes, cpu.i + k)]
          IN /\ panicked' = NoPanic
             /\ call'.instr.op = "LdBVx"
             /\ \A k \in 0..2 : stored[k] \in 0..9
             /\ 100 * stored[0] + 10 * stored[1] + stored[2] = vx
             /\ cpu' = cpu
             /\ \A a \in 0..(MEM_SIZE - 1) :
                    a \notin {cpu.i, cpu.i + 1, cpu.i + 2}
                        => At(memory'.bytes, a) = At(memory.bytes, a)]_vars

C13_Witness ==
    /\ call.op = "exec" /\ call.opcode = 61491
    /\ V(cpu, 0) = 139 /\ cpu.i = 528
    /\ At(memory.bytes, 528) = 1
    /\ At(memory.bytes, 529) = 3
    /\ At(memory.bytes, 530) = 9
    /\ panicked = NoPanic

(***************************************************************************)
(* Claims about the running machine, checked under Spec.                   *)
(***************************************************************************)
\* C14: each timer tick decrements the delay timer and the sound timer by
\* exactly 1 when nonzero and leaves a zero timer at zero; a timer never wraps,
\* so k ticks after a timer was last written with d (by Fx15 / Fx18, or 0 at
\* construction) it holds max(0, d - k).
C14_TimersFloorAtZero ==
    /\ cpu.dt = IF hist.dt_set >= hist.dt_ticks THEN hist.dt_set - hist.dt_ticks ELSE 0
    /\ cpu.st = IF hist.st_set >= hist.st_ticks THEN hist.st_set - hist.st_ticks ELSE 0

C14_Witness ==
    /\ call.op = "timers_tick"
    /\ hist.dt_set = 5 /\ hist.dt_ticks = 6 /\ cpu.dt = 0
    /\ hist.st_set = 3 /\ hist.st_ticks = 2 /\ cpu.st = 1

(***************************************************************************)
(* Claims about the decoder, checked under SpecDecode.  The documented     *)
(* patterns are the rows of the instruction table: four nibbles each,            *)
(* AnyNibble for an operand nibble.                                        *)
(***************************************************************************)
AnyNibble == 16

DocumentedPatterns ==
    { [pat |-> <<0, 0, 14, 0>>, tag |-> "Cls"],
      [pat |-> <<0, 0, 14, 14>>, tag |-> "Ret"],
      [pat |-> <<1, AnyNibble, AnyNibble, AnyNibble>>, tag |-> "Jp"],
      [pat |-> <<2, AnyNibble, AnyNibble, AnyNibble>>, tag |-> "Call"],
      [pat |-> <<3, AnyNibble, AnyNibble, AnyNibble>>, tag |-> "SeVxKK"],
      [pat |-> <<4, AnyNibble, AnyNibble, AnyNibble>>, tag |-> "SneVxKK"],
      [pat |-> <<5, AnyNibble, AnyNibble, 0>>, tag |-> "SeVxVy"],
      [pat |-> <<9, AnyNibble, AnyNibble, 0>>, tag |-> "SneVxVy"],
      [pat |-> <<6, AnyNibble, AnyNibble, AnyNibble>>, tag |-> "LdVxKK"],
      [pat |-> <<7, AnyNibble, AnyNibble, AnyNibble>>, tag |-> "AddVxKK"],
      [pat |-> <<8, AnyNibble, AnyNibble, 0>>, tag |-> "LdVxVy"],
      [pat |-> <<8, AnyNibble, AnyNibble, 1>>, tag |-> "OrVxVy"],
      [pat |-> <<8, AnyNibble, AnyNibble, 2>>, tag |-> "AndVxVy"],
      [pat |-> <<8, AnyNibble, AnyNibble, 3>>, tag |-> "XorVxVy"],
      [pat |-> <<8, AnyNibble, AnyNibble, 4>>, tag |-> "AddVxVy"],
      [pat |-> <<8, AnyNibble, AnyNibble, 5>>, tag |-> "SubVxVy"],
      [pat |-> <<8, AnyNibble, AnyNibble, 6>>, tag |-> "ShrVx"],
      [pat |-> <<8, AnyNibble, AnyNibble, 7>>, tag |-> "SubnVxVy"],
      [pat |-> <<8, AnyNibble, AnyNibble, 14>>, tag |-> "ShlVx"],
      [pat |-> <<10, AnyNibble, AnyNibble, AnyNibble>>, tag |-> "LdI"],
      [pat |-> <<11, AnyNibble, AnyNibble, AnyNibble>>, tag |-> "JpV0"],
      [pat |-> <<12, AnyNibble, AnyNibble, AnyNibble>>, tag |-> "RndVxKK"],
      [pat |-> <<13, AnyNibble, AnyNibble, AnyNibble>>, tag |-> "DrwVxVyN"],
      [pat |-> <<14, AnyNibble, 9, 14>>, tag |-> "SkpVx"],
      [pat |-> <<14, AnyNibble, 10, 1>>, tag |-> "SknpVx"],
      [pat |-> <<15, AnyNibble, 0, 7>>, tag |-> "LdVxDT"],
      [pat |-> <<15, AnyNibble, 0, 10>>, tag |-> "LdVxK"],
      [pat |-> <<15, AnyNibble, 1, 5>>, tag |-> "LdDTVx"],
      [pat |-> <<15, AnyNibble, 1, 8>>, tag |-> "LdSTVx"],
      [pat |-> <<15, AnyNibble, 1, 14>>, tag |-> "AddIVx"],
      [pat |-> <<15, AnyNibble, 2, 9>>, tag |-> "LdFVx"],
      [pat |-> <<15, AnyNibble, 3, 3>>, tag |-> "LdBVx"],
      [pat |-> <<15, AnyNibble, 5, 5>>, tag |-> "LdIVx"],
      [pat |-> <<15, AnyNibble, 6, 5>>, tag |-> "LdVxI"] }

\* nibble k of an opcode, k = 1 the most significant
Nibble(opcode, k) == Shr(opcode, 4 * (4 - k)) % 16

Matches(opcode, pat) == \A k \in 1..4 : pat[k] = AnyNibble \/ pat[k] = Nibble(opcode, k)

Documented(opcode) == \E p \in DocumentedPatterns : Matches(opcode, p.pat)

\* C15: the decoder maps every opcode matching a documented pattern of the
\* instruction table to that pattern's instruction tag and no other, with
\* nnn = low 12 bits, kk = low 8 bits, x = second nibble, y = third nibble and
\* n = fourth nibble; no two documented patterns share a tag, and decoding the
\* same opcode again gives the same result.
C15_DecodeDocumented ==
    /\ Cardinality({p.tag : p \in DocumentedPatterns}) = Cardinality(DocumentedPatterns)
    /\ call.op = "from" =>
         /\ \A p \in DocumentedPatterns :
              Matches(call.opcode, p.pat) =>
                /\ panicked = NoPanic
                /\ call.instr.op = p.tag
                /\ call.instr.nnn = BitAnd(call.opcode, 4095)
                /\ call.instr.kk = BitAnd(call.opcode, 255)
                /\ call.instr.x = Nibble(call.opcode, 2)
                /\ call.instr.y = Nibble(call.opcode, 3)
                /\ call.instr.n = Nibble(call.opcode, 4)
         /\ hist.instr # NoInstr => call.instr = hist.instr

\* 0xD123 decodes to draw with x = 1, y = 2, n = 3, twice over
C15_Witness ==
    /\ call.op = "from" /\ call.opcode = 53539
    /\ call.instr.op = "DrwVxVyN"
    /\ call.instr.x = 1 /\ call.instr.y = 2 /\ call.instr.n = 3
    /\ hist.instr = call.instr
    /\ panicked = NoPanic

(***************************************************************************)
(* Claims about one cpu cycle, checked under Spec.  A cycle that reached   *)
(* the decoder has call.instr # NoInstr.                                   *)
(***************************************************************************)
\* C16: every opcode that matches no documented pattern of the instruction
\* table causes a fatal decode fault when a cycle fetches it; none is silently
\* ignored or executed as some other instruction.
C16_UndocumentedOpcodeFaults ==
    (call.op = "cpu_cycle" /\ call.instr # NoInstr /\ ~Documented(call.opcode))
        => panicked = UnknownInstruction

\* C17: one cpu cycle fetches the big-endian word at PC, adds 2 to PC before
\* decoding and executing, and executes exactly that one instruction; after an
\* instruction that is not a jump, call, return, skip or key-wait, PC is PC
\* before plus 2.  For the program 6005 7003 00EE: after one cycle V0 = 5 and
\* PC = 0x202, after a second cycle V0 = 8 and PC = 0x204.
C17_CycleFetchAdvanceExec ==
    [][(call'.op = "cpu_cycle" /\ n_ops' = n_ops + 1 /\ cpu.pc + 1 < MEM_SIZE) =>
         LET word == At(memory.bytes, cpu.pc) * 256 + At(memory.bytes, cpu.pc + 1)
             advanced == [cpu EXCEPT !.pc = cpu.pc + 2]
             instr == call'.instr
         IN
         /\ call'.opcode = word
         /\ instr.op # "unknown" =>
              \E rand_byte \in RandBytes :
                 LET r == Cpu_exec(advanced, Instr_from(word), frame_buffer, memory,
                                   keypad', rand_byte)
                 IN /\ cpu' = r.cpu
                    /\ frame_buffer' = r.fb
                    /\ memory' = r.mem
                    /\ panicked' = r.panic
         /\ (/\ panicked' = NoPanic
             /\ instr.op \notin {"Jp", "JpV0", "Call", "Ret", "SeVxKK", "SneVxKK",
                                 "SeVxVy", "SneVxVy", "SkpVx", "SknpVx", "LdVxK"})
              => cpu'.pc = cpu.pc + 2
         /\ Slice(memory.bytes, 512, 518) = Words(ProgAdd) =>
              /\ n_ops' = 1 => V(cpu', 0) = 5 /\ cpu'.pc = 514
              /\ n_ops' = 2 => V(cpu', 0) = 8 /\ cpu'.pc = 516
      ]_vars

C17_Witness ==
    /\ call.op = "cpu_cycle" /\ call.pc = 514 /\ call.opcode = 28675
    /\ n_ops = 2 /\ V(cpu, 0) = 8 /\ cpu.pc = 516
    /\ panicked = NoPanic

\* C18: a cycle that executes Fx0A while no key is down leaves PC at the
\* address of that Fx0A and changes no register, I, timer, stack entry, memory
\* byte or pixel, so the next cycle fetches the same instruction again; a cycle
\* that executes Fx0A while some key is down stores the index of a key that is
\* down in Vx and leaves PC at the following instruction.
C18_KeyWait ==
    [][(call'.op = "cpu_cycle" /\ n_ops' = n_ops + 1) =>
         LET down == {k \in 0..(KEY_COUNT - 1) : At(keypad'.keys, k)}
             x == (call'.opcode \div 256) % 16
         IN
         /\ (call'.opcode \div 4096 = 15 /\ call'.opcode % 256 = 10) =>
              /\ panicked' = NoPanic
              /\ call'.instr.op = "LdVxK"
              /\ memory' = memory
              /\ frame_buffer' = frame_buffer
              /\ IF down = {}
                 THEN cpu' = cpu
                 ELSE /\ V(cpu', x) \in down
                      /\ cpu' = SetV([cpu EXCEPT !.pc = cpu.pc + 2], x, V(cpu', x))
         \* the cycle before this one waited: this one fetches the same instruction
         /\ (/\ call.op = "cpu_cycle"
             /\ call.opcode \div 4096 = 15 /\ call.opcode % 256 = 10
             /\ \A k \in 0..(KEY_COUNT - 1) : ~At(keypad.keys, k))
              => call'.pc = call.pc /\ call'.opcode = call.opcode
      ]_vars

\* two cycles waited at F10A at 0x200, the third found key 3 down
C18_Witness ==
    /\ call.op = "cpu_cycle" /\ call.pc = 512 /\ call.opcode = 61706
    /\ n_ops = 3 /\ cpu.pc = 514 /\ V(cpu, 1) = 3
    /\ panicked = NoPanic


\* C20: 2nnn pushes the address of the instruction following the call and sets
\* PC to nnn; 00EE with a non-empty stack removes the most recently pushed
\* address and sets PC to it; nothing else changes the stack.  Hence returns
\* resume immediately after their matching calls, last in first out, and the
\* stack depth is the number of calls minus the number of successful returns.
C20_CallReturn ==
    [][LET cycle == call'.op = "cpu_cycle" /\ n_ops' = n_ops + 1
           is_call == cycle /\ call'.opcode \div 4096 = 2
           is_ret == cycle /\ call'.opcode = 238
           depth == Len(cpu.stack)
       IN
       /\ is_call =>
            /\ panicked' = NoPanic
            /\ cpu' = [cpu EXCEPT !.stack = cpu.stack \o <<call'.pc + 2>>,
                                  !.pc = call'.opcode % 4096]
            /\ hist'.calls = hist.calls + 1 /\ hist'.rets = hist.rets
       /\ (is_ret /\ depth > 0) =>
            /\ panicked' = NoPanic
            /\ cpu' = [cpu EXCEPT !.stack = SubSeq(cpu.stack, 1, depth - 1),
                                  !.pc = cpu.stack[depth]]
            /\ hist'.calls = hist.calls /\ hist'.rets = hist.rets + 1
       /\ ~(is_call \/ is_ret) =>
            /\ cpu'.stack = cpu.stack
            /\ hist'.calls = hist.calls /\ hist'.rets = hist.rets
       /\ Len(cpu'.stack) = hist'.calls - hist'.rets
      ]_vars

\* 2206 at 0x200 and 220A at 0x206 called, 00EE at 0x20A returned to 0x208, and
\* 00EE at 0x208 returns to 0x202
C20_Witness ==
    /\ call.op = "cpu_cycle" /\ call.pc = 520 /\ call.opcode = 238
    /\ n_ops = 4 /\ cpu.pc = 514 /\ cpu.stack = << >>
    /\ hist.calls = 2 /\ hist.rets = 2
    /\ panicked = NoPanic
(***************************************************************************)
(* Claims about the keypad, checked under SpecKeypad.                      *)
(***************************************************************************)
\* C19: get_down_key returns the smallest index in 0..15 whose key is down, and
\* None exactly when no key is down: Fx0A executed while keys are down stores
\* the lowest-numbered of them in Vx, and rewinds PC exactly when none is down.
C19_LowestKeyDown ==
    call.op = "exec" =>
        LET down == {k \in 0..(KEY_COUNT - 1) : At(keypad.keys, k)}
            lowest == CHOOSE k \in down : \A j \in down : k <= j
        IN
        /\ panicked = NoPanic
        /\ IF down = {}
           THEN cpu = [hist.cpu EXCEPT !.pc = hist.cpu.pc - 2]
           ELSE cpu = SetV(hist.cpu, OpX, lowest)

C19_Witness ==
    /\ call.op = "exec" /\ call.opcode = 61706
    /\ {k \in 0..(KEY_COUNT - 1) : At(keypad.keys, k)} = {5, 9, 14}
    /\ V(cpu, 1) = 5 /\ cpu.pc = hist.cpu.pc
    /\ panicked = NoPanic

(***************************************************************************)
(* Further claims about one cpu cycle, checked under Spec.                 *)
(***************************************************************************)
\* C21: executing 00EE when the call stack is empty is a silent no-op: it does
\* not fault, the stack stays empty, no register changes, and PC is left at the
\* instruction following the 00EE, where the fetch advance put it.
C21_ReturnOnEmptyStack ==
    [][(/\ call'.op = "cpu_cycle" /\ n_ops' = n_ops + 1
        /\ call'.opcode = 238 /\ cpu.stack = << >>) =>
         /\ panicked' = NoPanic
         /\ cpu' = [cpu EXCEPT !.pc = cpu.pc + 2]
         /\ memory' = memory
         /\ frame_buffer' = frame_buffer
      ]_vars

\* 6005 7003 00EE: the third cycle returns with nothing pending
C21_Witness ==
    /\ call.op = "cpu_cycle" /\ call.pc = 516 /\ call.opcode = 238
    /\ n_ops = 3 /\ cpu.pc = 518 /\ cpu.stack = << >> /\ V(cpu, 0) = 8
    /\ hist.calls = 0 /\ hist.rets = 0
    /\ panicked = NoPanic

(***************************************************************************)
(* Further claims about Memory, checked under SpecMem.                     *)
(***************************************************************************)
\* C22: words are big-endian: for every address a <= 4094, read_word(a) is
\* 256 * read_byte(a) + read_byte(a + 1), and write_word(a, w) stores the high
\* byte of w at a and the low byte at a + 1 and changes no other byte.
C22_WordsBigEndian ==
    [][(call'.op \in {"read_word", "write_word"} /\ call'.address <= MEM_SIZE - 2) =>
         LET a == call'.address IN
         /\ panicked' = NoPanic
         /\ call'.op = "read_word" =>
              call'.ret = 256 * Memory_read_byte(memory, a).ret
                            + Memory_read_byte(memory, a + 1).ret
         /\ call'.op = "write_word" =>
              LET w == hist'.data[1] IN
              /\ Memory_read_byte(memory', a).ret = w \div 256
              /\ Memory_read_byte(memory', a + 1).ret = w % 256
              /\ \A k \in 0..(MEM_SIZE - 1) \ {a, a + 1} :
                    At(memory'.bytes, k) = At(memory.bytes, k)
      ]_vars

\* write_word(0x200, 0xF1F3) makes read_byte(0x200) = 0xF1, read_byte(0x201) = 0xF3
C22_Witness ==
    /\ call.op = "write_word" /\ call.address = 512 /\ hist.data = <<61939>>
    /\ At(memory.bytes, 512) = 241 /\ At(memory.bytes, 513) = 243
    /\ panicked = NoPanic

(***************************************************************************)
(* Claims about instructions run from a loaded program, checked under      *)
(* SpecRun.                                                                *)
(***************************************************************************)
\* C23: for every key value Vx in 0..15, Ex9E advances PC by an extra 2 iff key
\* Vx is down and ExA1 advances PC by an extra 2 iff key Vx is not down, so of
\* the two exactly one skips in a given state; neither changes any register,
\* the keypad, the memory or a pixel.
C23_KeyTestSkips ==
    [][(/\ call'.op = "cpu_cycle" /\ n_ops' = n_ops + 1
        /\ call'.opcode \div 4096 = 14 /\ call'.opcode % 256 \in {158, 161}
        /\ V(cpu, (call'.opcode \div 256) % 16) \in 0..15) =>
         LET vx == V(cpu, (call'.opcode \div 256) % 16)
             down == At(keypad.keys, vx)
             skips == IF call'.opcode % 256 = 158 THEN down ELSE ~down
         IN
         /\ panicked' = NoPanic
         /\ cpu' = [cpu EXCEPT !.pc = cpu.pc + (IF skips THEN 4 ELSE 2)]
         /\ keypad' = keypad
         /\ memory' = memory
         /\ frame_buffer' = frame_buffer
      ]_vars

\* V0 = 14 with the even keys down: E09E at 0x204 skipped to the E0A1 at 0x208,
\* which does not skip
C23_Witness ==
    /\ call.op = "cpu_cycle" /\ call.pc = 520 /\ call.opcode = 57505
    /\ V(cpu, 0) = 14 /\ At(keypad.keys, 14) /\ ~At(keypad.keys, 13)
    /\ cpu.pc = 522
    /\ panicked = NoPanic

\* C24: for every x in 0..15 and I with I + x < 4096, Fx55 writes V0..Vx to the
\* memory bytes I..I+x in register order and changes no register, not I, and
\* no other memory byte; Fx65 sets V0..Vx to the memory bytes I..I+x and changes
\* no register above x, not I, and no memory; so Fx55 followed by Fx65 with the
\* same x and I leaves all registers as they were before the Fx55.
C24_StoreLoadRegisters ==
    [][(/\ call'.op = "cpu_cycle" /\ n_ops' = n_ops + 1
        /\ call'.opcode \div 4096 = 15 /\ call'.opcode % 256 \in {85, 101}
        /\ cpu.i + ((call'.opcode \div 256) % 16) < MEM_SIZE) =>
         LET x == (call'.opcode \div 256) % 16
             store == call'.opcode % 256 = 85
         IN
         /\ panicked' = NoPanic
         /\ frame_buffer' = frame_buffer
         /\ store =>
              /\ cpu' = [cpu EXCEPT !.pc = cpu.pc + 2]
              /\ \A k \in 0..x : At(memory'.bytes, cpu.i + k) = V(cpu, k)
              /\ \A a \in 0..(MEM_SIZE - 1) \ (cpu.i..(cpu.i + x)) :
                    At(memory'.bytes, a) = At(memory.bytes, a)
         /\ ~store =>
              /\ \A k \in 0..x : V(cpu', k) = At(memory.bytes, cpu.i + k)
              /\ \A k \in (x + 1)..15 : V(cpu', k) = V(cpu, k)
              /\ [cpu' EXCEPT !.v = cpu.v] = [cpu EXCEPT !.pc = cpu.pc + 2]
              /\ memory' = memory
              \* straight after the Fx55 of the same x, with I as it was
              /\ (/\ call.op = "cpu_cycle" /\ call.opcode = call'.opcode - 16
                  /\ cpu.i = hist.cpu.i)
                   => cpu'.v = hist.cpu.v
      ]_vars

\* A005 FF65 AFF0 FF55 FF65: the sixteen registers stored at 4080..4095 and
\* loaded back
C24_Witness ==
    /\ call.op = "cpu_cycle" /\ call.pc = 520 /\ call.opcode = 65381
    /\ cpu.i = 4080 /\ hist.cpu.i = 4080
    /\ V(cpu, 0) = 32 /\ V(cpu, 1) = 96 /\ V(cpu, 15) = 144
    /\ At(memory.bytes, 4080) = 32 /\ At(memory.bytes, 4081) = 96
    /\ At(memory.bytes, 4095) = 144
    /\ panicked = NoPanic

C26_StackOverflowUnhandled ==
    [][(/\ call'.op = "cpu_cycle" /\ n_ops' = n_ops + 1
        /\ call'.opcode \div 4096 = 2
        /\ Len(cpu.stack) >= STACK_SIZE) =>
         /\ panicked' = NoPanic
         /\ Len(cpu'.stack) = Len(cpu.stack) + 1
         /\ cpu' = [cpu EXCEPT !.stack = cpu.stack \o <<cpu.pc + 2>>,
                               !.pc = call'.opcode % 4096]
      ]_vars

\* 2200 run for 18 cycles: 18 return addresses pending
C26_Witness ==
    /\ call.op = "cpu_cycle" /\ call.opcode = 8704
    /\ Len(cpu.stack) = STACK_SIZE + 2 /\ cpu.stack[STACK_SIZE + 1] = 514
    /\ cpu.pc = 512
    /\ panicked = NoPanic

(***************************************************************************)
(* Claims about the frame buffer in the running machine, checked under     *)
(* Spec.                                                                   *)
(***************************************************************************)
\* C27: the frame buffer's pixels are mutated only by the clear instruction
\* (00E0) and the sprite-draw instruction (Dxyn): a cycle executing any other
\* instruction, a timer tick, a keypad poll, a refresh and a program load all
\* leave every pixel unchanged.
C27_PixelsOnlyByClearAndDraw ==
    /\ [](call.op = "load_rom" => frame_buffer.buffer = FrameBuffer_default.buffer)
    /\ [][frame_buffer'.buffer # frame_buffer.buffer =>
            /\ call'.op = "cpu_cycle"
            /\ call'.opcode = 224 \/ call'.opcode \div 4096 = 13
         ]_vars

\* 00E0 A20E 6A8B FA33 D125 CB0F FA1E: the pixels D125 set are still there after
\* FA1E
C27_Witness ==
    /\ call.op = "cpu_cycle" /\ call.opcode = 64030
    /\ cpu.i = 526 + 139
    /\ frame_buffer.buffer # FrameBuffer_default.buffer
    /\ FrameBuffer_get_pixel(frame_buffer, 7, 1) = 1
    /\ panicked = NoPanic

(***************************************************************************)
(* Claims about FrameBuffer::clear, checked under SpecFb.                  *)
(***************************************************************************)
\* C28: clearing the display zeroes all 2048 pixels and marks the surface
\* dirty: after FrameBuffer::clear() every pixel is 0 and has_changed() is
\* true.  Violated: clear() writes the pixels only and leaves the flag as it
\* was, so clear() on a new frame buffer leaves has_changed() false.
C28_ClearMarksDirty ==
    call.op = "clear" =>
        /\ Len(frame_buffer.buffer) = BUFFER_WIDTH * BUFFER_HEIGHT
        /\ \A p \in 1..Len(frame_buffer.buffer) : frame_buffer.buffer[p] = 0
        /\ FrameBuffer_has_changed(frame_buffer)

(***************************************************************************)
(* Claims about the host loop, checked under Spec.                         *)
(***************************************************************************)
\* C29: display refresh is driven by frame-buffer staleness: a refresh pushes
\* the pixel array to the window only if the frame buffer has changed since the
\* previous refresh, and leaves the buffer marked not-stale.  Violated:
\* refresh_screen pushes at every refresh, never reads has_changed and never
\* resets it.
C29_RefreshDrivenByStaleness ==
    [][call'.op = "refresh_screen" =>
            /\ hist'.pushed => FrameBuffer_has_changed(frame_buffer)
            /\ ~FrameBuffer_has_changed(frame_buffer')
      ]_vars

\* C30: every cpu cycle is immediately preceded by a keypad poll that
\* overwrites all 16 key states from the host's current key-down set, with no
\* timer tick, refresh or other cycle between the poll and the cycle; each
\* key-test and key-wait instruction reads the key state polled for its own
\* cycle, and a key released before the poll is not seen as down.  Timer ticks
\* and refreshes do not poll.
C30_PollBeforeEveryCycle ==
    [][IF call'.op = "cpu_cycle"
       THEN LET x == (call'.opcode \div 256) % 16
                vx == V(cpu, x)
                down == vx \in hist'.held
            IN
            /\ n_ops' = n_ops + 1
            /\ hist'.ticks = hist.ticks /\ ~hist'.pushed
            /\ \A k \in 0..(KEY_COUNT - 1) : At(keypad'.keys, k) <=> k \in hist'.held
            /\ \E rand_byte \in RandBytes :
                 LET r == Chip8_cpu_cycle(cpu, frame_buffer, memory, keypad', rand_byte).res IN
                 /\ cpu' = r.cpu /\ frame_buffer' = r.fb /\ memory' = r.mem
                 /\ panicked' = r.panic
            /\ call'.opcode \div 4096 = 14 /\ call'.opcode % 256 = 158 /\ vx < KEY_COUNT
                 => cpu'.pc = cpu.pc + (IF down THEN 4 ELSE 2)
            /\ call'.opcode \div 4096 = 14 /\ call'.opcode % 256 = 161 /\ vx < KEY_COUNT
                 => cpu'.pc = cpu.pc + (IF down THEN 2 ELSE 4)
            /\ call'.opcode \div 4096 = 15 /\ call'.opcode % 256 = 10
                 => IF hist'.held = {}
                    THEN cpu' = cpu
                    ELSE /\ cpu'.pc = cpu.pc + 2
                         /\ V(cpu', x) \in hist'.held
       ELSE keypad' = keypad /\ n_ops' = n_ops
      ]_vars

\* F10A E19E with key 3 down at the first cycle and released at the second:
\* E19E, testing key V1 = 3, does not skip
C30_Witness ==
    /\ call.op = "cpu_cycle" /\ call.pc = 514 /\ call.opcode = 57758
    /\ V(cpu, 1) = 3
    /\ hist.held = {}
    /\ \A k \in 0..(KEY_COUNT - 1) : ~At(keypad.keys, k)
    /\ cpu.pc = 516
    /\ panicked = NoPanic

(***************************************************************************)
(* Claims about the key wait in the host loop, checked under SpecWait.     *)
(***************************************************************************)
\* The last cycle executed an Fx0A and left PC on it
WaitingAtKeyWait ==
    /\ call.op = "cpu_cycle"
    /\ call.opcode \div 4096 = 15 /\ call.opcode % 256 = 10
    /\ cpu.pc = call.pc

\* C31: the key wait never loops inside the core.  A cycle on Fx0A is one
\* fetch, decode and execute: it either stores the lowest key its poll reported
\* down in Vx and leaves PC after the Fx0A, or changes nothing and leaves PC on
\* the Fx0A.  It resolves exactly when its poll reports some key down, so a wait
\* resolves at the first such cycle and not before; and from a pending wait,
\* either no later poll ever reports a key down or PC eventually advances past
\* the Fx0A.
C31_KeyWaitYields ==
    /\ [][(call'.op = "cpu_cycle" /\ call'.opcode \div 4096 = 15
                /\ call'.opcode % 256 = 10) =>
            LET x == (call'.opcode \div 256) % 16 IN
            /\ call'.pc = cpu.pc /\ hist'.cpu = cpu
            /\ panicked' = NoPanic
            /\ memory' = memory /\ frame_buffer' = frame_buffer
            /\ IF hist'.held = {}
               THEN cpu' = cpu
               ELSE /\ cpu'.pc = cpu.pc + 2
                    /\ V(cpu', x) \in hist'.held
                    /\ \A k \in hist'.held : V(cpu', x) <= k
                    /\ cpu' = SetV([cpu EXCEPT !.pc = cpu.pc + 2], x, V(cpu', x))
         ]_vars
    /\ [](WaitingAtKeyWait =>
            \/ [](hist.held = {})
            \/ <>(cpu.pc = call.pc + 2 /\ hist.held # {}))

\* FA0A waited with no key down, then resolved at the first poll to report
\* keys 3 and C down: VA = 3 and PC is after the FA0A
C31_Witness ==
    /\ call.op = "cpu_cycle" /\ call.pc = 512 /\ call.opcode = 64010
    /\ hist.cpu.pc = 512 /\ hist.cpu.v = Cpu_new.v
    /\ hist.held = {3, 12}
    /\ V(cpu, 10) = 3
    /\ cpu.pc = 514
    /\ panicked = NoPanic

(***************************************************************************)
(* Claims about the timers in the host loop, checked under Spec.           *)
(***************************************************************************)
\* C32: timer decay is decoupled from instruction execution.  A timer tick
\* changes only the delay and sound timers (PC, V0..VF, I, stack, memory, pixels
\* and keypad are unchanged); a cpu cycle changes a timer only when it executes
\* Fx15 (delay = Vx) or Fx18 (sound = Vx), so a pending Fx0A leaves the timers
\* to the ticks; and Fx07 stores the delay value of the moment in Vx.
C32_TimersDecoupled ==
    [][LET x == (call'.opcode \div 256) % 16
           fx(low) == call'.opcode \div 4096 = 15 /\ call'.opcode % 256 = low
       IN
       /\ call'.op = "timers_tick" =>
            /\ cpu' = [cpu EXCEPT !.dt = IF cpu.dt = 0 THEN 0 ELSE cpu.dt - 1,
                                  !.st = IF cpu.st = 0 THEN 0 ELSE cpu.st - 1]
            /\ memory' = memory /\ frame_buffer' = frame_buffer /\ keypad' = keypad
            /\ panicked' = panicked
       /\ call'.op = "cpu_cycle" =>
            /\ cpu'.dt # cpu.dt => fx(21)
            /\ cpu'.st # cpu.st => fx(24)
            /\ fx(21) => cpu'.dt = V(cpu, x) /\ panicked' = NoPanic
            /\ fx(24) => cpu'.st = V(cpu, x) /\ panicked' = NoPanic
            /\ fx(7) => cpu' = SetV([cpu EXCEPT !.pc = cpu.pc + 2], x, cpu.dt)
            /\ fx(10) /\ hist'.held = {} => cpu' = cpu
       /\ call'.op = "refresh_screen" => cpu' = cpu
      ]_vars

\* 6005 F015 F10A F207: the wait took three cycles, two ticks came between the
\* F015 and the F207, and F207 read 3
C32_Witness ==
    /\ call.op = "cpu_cycle" /\ call.pc = 518 /\ call.opcode = 61959
    /\ n_ops = 6
    /\ hist.dt_set = 5 /\ hist.dt_ticks = 2
    /\ cpu.dt = 3 /\ V(cpu, 2) = 3
    /\ V(cpu, 1) = 3 /\ V(cpu, 0) = 5
    /\ panicked = NoPanic

(***************************************************************************)
(* Claims about the machine's faults, checked under Spec.                  *)
(***************************************************************************)
\* C33: in every reachable state, after any sequence of program loads, cycles,
\* timer ticks and keypad polls, every one of the 64x32 frame-buffer cells
\* holds 0 or 1, so refresh_screen never reaches its 'no such value' fault.
C33_PixelsAreBits ==
    /\ frame_buffer.buffer \in [1..(BUFFER_WIDTH * BUFFER_HEIGHT) -> {0, 1}]
    /\ panicked # UnreachablePixel
    /\ call.op = "refresh_screen" => hist.pushed

\* A000 D005 D005: a refresh after the glyph was drawn over itself, which
\* reported the collision and erased it
C33_Witness ==
    /\ call.op = "refresh_screen" /\ hist.pushed
    /\ n_ops = 3 /\ cpu.pc = 518 /\ cpu.i = 0
    /\ V(cpu, 15) = 1
    /\ FrameBuffer_has_changed(frame_buffer)
    /\ frame_buffer.buffer = FrameBuffer_default.buffer
    /\ At(memory.bytes, 514) = 208 /\ At(memory.bytes, 515) = 5

(***************************************************************************)
(* Claims about the faults of a cpu cycle, checked under SpecRun.          *)
(***************************************************************************)
\* C34: a cpu cycle faults only for an out-of-bounds memory access or an
\* unknown opcode: for every reachable register state no instruction faults
\* because of 8-bit or 16-bit arithmetic or because the key index Vx of Ex9E /
\* ExA1 lies outside 0..15.  Violated: Ex9E and ExA1 index the 16 keys with Vx
\* unchecked, and Fx29 multiplies Vx by 5 in 8 bits.
C34_FaultsOnlyFromTaxonomy ==
    panicked \in {NoPanic, IllegalAccess, UnknownInstruction}

\* C35: the program counter is never wrapped or clamped into memory.  A cycle
\* that starts with PC > 0xFFE faults in the fetch as an out-of-bounds access,
\* executes no instruction and changes no machine state; a cycle that completes
\* without fault started with PC at most 0xFFE.
C35_FetchBeyondMemoryFaults ==
    [][call'.op = "cpu_cycle" =>
            /\ call'.pc = cpu.pc
            /\ cpu.pc > MEM_SIZE - 2 =>
                 /\ panicked' = IllegalAccess
                 /\ call'.instr = NoInstr
                 /\ cpu' = cpu /\ memory' = memory
                 /\ frame_buffer' = frame_buffer /\ keypad' = keypad
            /\ panicked' = NoPanic => cpu.pc <= MEM_SIZE - 2
      ]_vars

\* 1FFE, then 3000 at 0xFFE with V0 = 0: the skip leaves PC = 0x1002, and the
\* next cycle faults in its fetch with PC still 0x1002
C35_Witness ==
    /\ call.op = "cpu_cycle" /\ call.pc = 4098 /\ call.instr = NoInstr
    /\ panicked = IllegalAccess
    /\ cpu.pc = 4098 /\ hist.cpu = cpu
    /\ n_ops = 3
    /\ At(memory.bytes, 4094) = 48 /\ At(memory.bytes, 4095) = 0

====
